---- MODULE Spec2Model ----
(***************************************************************************)
(* Model of the Android wheel build pipeline of ririv/android-wheels:      *)
(* .github/scripts/build/build_android_wheel.py and its helpers.           *)
(*                                                                         *)
(* Text (tag names, version strings, file names) is a sequence of          *)
(* one-character strings, so that prefix tests, splitting and integer      *)
(* parsing are computed the way Python computes them.                      *)
(***************************************************************************)
EXTENDS Integers, Sequences, FiniteSets, TLC

VARIABLES
    pc,            \* position of the running call
    tg_pages,      \* latest-patch resolution: the chain of tag-list responses
    tg_version,    \* latest-patch resolution: the python_version argument
    tg_out,        \* latest-patch resolution: what the call returned and fetched
    tg_url,        \* the while loop, one page per step: url (0 is None)
    tg_patches,    \* the while loop: patch_versions
    tg_fetched,    \* the while loop: the pages requested so far
    avx512_rs,     \* source tree: src/str/avx512.rs
    pystr_rs,      \* source tree: src/str/pystr.rs
    pt_calls,      \* invocations of patch_orjson_for_android on this tree
    pt_warned,     \* the last invocation printed the verification warning
    files,         \* project tree: the files a wheel search can see
    out_dir,       \* the output directory: whether it exists, and its files
    pw_args,       \* process_wheel: its arguments
    pw_out,        \* process_wheel: what the last call searched, chose and raised
    runs,          \* main: invocations of the script started so far
    req,           \* main: the request read from the process environment
    temp,          \* RUNNER_TEMP: the NDK and the pre-built Python runtime
    src,           \* library-source: clone state, pyproject.toml, .cargo, .build_venv
    io,            \* external actions (network, commands, writes) of the last step
    effects,       \* main: what the build function of this run has done so far
    error,         \* main: the exception that ended this run, and where
    build_calls,   \* main: invocations of the build command in this run
    python_lib_dir, \* main: the runtime whose lib directory setup_python_cross_build returned
    os_environ,    \* os.environ of the running script
    prepared_env,  \* main: the mapping prepare_build_environment returned
    build_env,     \* the build function's own mapping, passed to the build command
    caught,        \* main: failures of this run after which execution went on
    cargo_toml,    \* Cargo.toml of the project, as data
    cg_before,     \* Cargo.toml before the last patch_pyo3_cargo_toml call
    cg_calls,      \* invocations of patch_pyo3_cargo_toml on this file
    cg_wrote       \* the last invocation wrote the file

tagVars == <<tg_pages, tg_version, tg_out, tg_url, tg_patches, tg_fetched>>
patchVars == <<avx512_rs, pystr_rs, pt_calls, pt_warned>>
wheelVars == <<files, out_dir, pw_args, pw_out>>
mainVars == <<runs, req, temp, src, io, effects, error, build_calls,
             python_lib_dir, os_environ, prepared_env, build_env, caught>>
cargoVars == <<cargo_toml, cg_before, cg_calls, cg_wrote>>
vars == <<pc, tagVars, patchVars, wheelVars, mainVars, cargoVars>>

(***************************************************************************)
(* Bounds of the model                                                     *)
(***************************************************************************)
MaxPages == 2
MaxTags == 2
MaxFileLen == 2
MaxPatchCalls == 3
MaxFiles == 3
MaxMtime == 2
MaxRuns == 2
MaxFeatures == 2
MaxCargoCalls == 3

(***************************************************************************)
(* Python string primitives                                                *)
(***************************************************************************)
SeqsUpTo(S, n) == UNION {[1..k -> S] : k \in 0..n}

\* Listings without a repeated entry, of at most n entries
ListingsUpTo(S, n) ==
    {s \in SeqsUpTo(S, n) : \A i, j \in 1..Len(s) : s[i] = s[j] => i = j}

\* str.startswith
StartsWith(s, p) == Len(s) >= Len(p) /\ SubSeq(s, 1, Len(p)) = p

\* str.endswith
EndsWith(s, p) == Len(s) >= Len(p) /\ SubSeq(s, Len(s) - Len(p) + 1, Len(s)) = p

\* s[1:]
DropFirst(s) == IF s = <<>> THEN <<>> ELSE Tail(s)

RECURSIVE Split(_, _)
\* str.split(sep) for a one-character separator: always at least one field
Split(s, sep) ==
    IF \A i \in 1..Len(s) : s[i] # sep
    THEN <<s>>
    ELSE LET i == CHOOSE j \in 1..Len(s) :
                      s[j] = sep /\ \A k \in 1..(j - 1) : s[k] # sep
         IN  <<SubSeq(s, 1, i - 1)>> \o Split(SubSeq(s, i + 1, Len(s)), sep)

DigitChars == {"0", "1", "2", "3", "4", "5", "6", "7", "8", "9"}

DigitVal(c) ==
    CASE c = "0" -> 0 [] c = "1" -> 1 [] c = "2" -> 2 [] c = "3" -> 3
      [] c = "4" -> 4 [] c = "5" -> 5 [] c = "6" -> 6 [] c = "7" -> 7
      [] c = "8" -> 8 [] c = "9" -> 9

DigitChar(d) == <<"0", "1", "2", "3", "4", "5", "6", "7", "8", "9">>[d + 1]

\* int(s) raises ValueError unless s is a non-empty run of decimal digits
IsIntText(s) == s # <<>> /\ \A i \in 1..Len(s) : s[i] \in DigitChars

RECURSIVE IntOf(_)
\* int(s) for a digit string
IntOf(s) ==
    IF s = <<>> THEN 0
    ELSE IntOf(SubSeq(s, 1, Len(s) - 1)) * 10 + DigitVal(s[Len(s)])

RECURSIVE IntText(_)
\* str(n) for n >= 0
IntText(n) ==
    IF n < 10 THEN <<DigitChar(n)>>
    ELSE IntText(n \div 10) \o <<DigitChar(n % 10)>>

\* max(list) of a non-empty list of integers
MaxOf(l) == CHOOSE m \in {l[i] : i \in 1..Len(l)} :
                \A i \in 1..Len(l) : l[i] <= m

(***************************************************************************)
(* get_latest_patch_for_python                                             *)
(***************************************************************************)
V313 == <<"3", ".", "1", "3">>
V314 == <<"3", ".", "1", "4">>
V315 == <<"3", ".", "1", "5">>

\* Tag names the upstream listing may hold.
TagNames == {
    <<"v", "3", ".", "1", "4", ".", "2">>,
    <<"v", "3", ".", "1", "4", ".", "1", "0">>,
    <<"v", "3", ".", "1", "4", ".", "0", "r", "c", "1">>,
    <<"v", "3", ".", "1", "5", ".", "7">>
}

\* One response of the tag listing: it fails (network, HTTP or JSON error),
\* or it carries the tags of one page (a tag is listed once per page).
PageResponses ==
    {[ok |-> FALSE, tags |-> <<>>]}
        \cup {[ok |-> TRUE, tags |-> t] : t \in ListingsUpTo(TagNames, MaxTags)}

\* The listing is a chain of at least one page; page i links to page i + 1.
PageChains == UNION {[1..n -> PageResponses] : n \in 1..MaxPages}

\* The Link header of page i of n, as the upstream API writes it: a list of
\* <<target page, rel>> entries, absent (<<>>) for a single page.
LinkHeader(i, n) ==
    (IF i < n THEN <<<<i + 1, "next">>, <<n, "last">>>> ELSE <<>>)
        \o (IF i > 1 THEN <<<<i - 1, "prev">>, <<1, "first">>>> ELSE <<>>)

\* A plausible slip: the first link of the header is followed, whatever
\* its relation.
NextUrl_FirstLink(link_header) ==
    IF link_header # <<>> THEN link_header[1][1] ELSE 0

\* First entry of the header whose relation is "next"; 0 is url = None.
NextUrl(link_header) ==
    IF \E k \in 1..Len(link_header) : link_header[k][2] = "next"
    THEN link_header[CHOOSE k \in 1..Len(link_header) :
                         /\ link_header[k][2] = "next"
                         /\ \A j \in 1..(k - 1) : link_header[j][2] # "next"][1]
    ELSE 0

\* int(tag_name[1:].split('.')[-1])
TagPatchText(tag_name) ==
    LET fields == Split(DropFirst(tag_name), ".") IN fields[Len(fields)]

RECURSIVE PagePatches_StopsAtBadTag(_, _)
\* A plausible slip: a tag whose patch is no integer ends the loop over
\* the page (break for continue).
PagePatches_StopsAtBadTag(tags, version_prefix) ==
    IF tags = <<>> THEN <<>>
    ELSE LET tag_name == Head(tags)
             rest == PagePatches_StopsAtBadTag(Tail(tags), version_prefix)
         IN  IF ~StartsWith(tag_name, version_prefix) THEN rest
             ELSE IF IsIntText(TagPatchText(tag_name))
             THEN <<IntOf(TagPatchText(tag_name))>> \o rest
             ELSE <<>>

RECURSIVE PagePatches(_, _)
\* The inner for loop: the patch numbers one page appends to patch_versions.
PagePatches(tags, version_prefix) ==
    IF tags = <<>> THEN <<>>
    ELSE LET tag_name == Head(tags)
             rest == PagePatches(Tail(tags), version_prefix)
         IN  IF StartsWith(tag_name, version_prefix)
                    /\ IsIntText(TagPatchText(tag_name))
             THEN <<IntOf(TagPatchText(tag_name))>> \o rest
             ELSE rest

\* return f"{python_version}.0"
FallbackVersion(python_version) == python_version \o <<".", "0">>

\* A plausible slip: the patch of the tag listed last instead of the maximum.
LatestFrom_LastListed(python_version, patch_versions) ==
    IF patch_versions = <<>>
    THEN FallbackVersion(python_version)
    ELSE python_version \o <<".">>
             \o IntText(patch_versions[Len(patch_versions)])

\* After the loop: the maximum patch, or the fallback for an empty list.
LatestFrom(python_version, patch_versions) ==
    IF patch_versions = <<>>
    THEN FallbackVersion(python_version)
    ELSE python_version \o <<".">> \o IntText(MaxOf(patch_versions))

\* A plausible slip: on an error, answer from the tags collected so far.
OnFetchError_PartialMax(python_version, patch_versions) ==
    LatestFrom(python_version, patch_versions)

\* The except branch: whatever was collected, fall back to patch 0.
OnFetchError(python_version, patch_versions) ==
    FallbackVersion(python_version)

RECURSIVE FetchLoop(_, _, _, _, _)
\* The while loop: url is the page to fetch (0 is None), fetched the pages
\* requested so far.
FetchLoop(python_version, pages, url, patch_versions, fetched) ==
    IF url = 0
    THEN [version |-> LatestFrom(python_version, patch_versions),
          fetched |-> fetched, failed |-> FALSE]
    ELSE IF ~pages[url].ok
    THEN [version |-> OnFetchError(python_version, patch_versions),
          fetched |-> Append(fetched, url), failed |-> TRUE]
    ELSE FetchLoop(python_version, pages,
                   NextUrl(LinkHeader(url, Len(pages))),
                   patch_versions
                       \o PagePatches(pages[url].tags,
                                      <<"v">> \o python_version \o <<".">>),
                   Append(fetched, url))

get_latest_patch_for_python(python_version, pages) ==
    FetchLoop(python_version, pages, 1, <<>>, <<>>)

(***************************************************************************)
(* main: the request, the caches under RUNNER_TEMP and the source tree     *)
(***************************************************************************)
Orjson == <<"o", "r", "j", "s", "o", "n">>
OtherLib == <<"a", "-", "b">>
Aarch64Android == <<"a", "a", "r", "c", "h", "6", "4", "-", "l", "i", "n", "u", "x", "-", "a", "n", "d", "r", "o", "i", "d">>
X8664Android == <<"x", "8", "6", "_", "6", "4", "-", "l", "i", "n", "u", "x", "-", "a", "n", "d", "r", "o", "i", "d">>
Arm64V8a == <<"a", "r", "m", "6", "4", "-", "v", "8", "a">>
X8664 == <<"x", "8", "6", "_", "6", "4">>

\* needle in s, for texts
HasSubstring(s, needle) ==
    \E i \in 1..(Len(s) - Len(needle) + 1) :
        SubSeq(s, i, i + Len(needle) - 1) = needle

\* The CIBW_* variables of one invocation, as main has them after its reads
\* at the top: build_method is "" until BUILD_METHOD is read, after the
\* acquisition.
Requests ==
    {r \in [library_name : {Orjson, OtherLib},
            library_version : {<<>>},
            python_version : {V313, V314},
            android_api : {<<"2", "4">>},
            target_triplet : {Aarch64Android, X8664Android},
            target_abi : {Arm64V8a, X8664},
            build_method : {""},
            method_imported : {FALSE}] :
        (r.target_triplet = Aarch64Android) = (r.target_abi = Arm64V8a)}

\* BUILD_METHOD, lowered, with whether the module of that method was
\* imported (CAN_USE_ZIG, CAN_USE_CROSS: main reads only the flag of the
\* method requested).
Methods ==
    {m \in [build_method : {"native", "cross", "zig"}, method_imported : BOOLEAN] :
        m.build_method = "native" => m.method_imported}

\* The request once BUILD_METHOD is read
WithMethod(r, m) ==
    [r EXCEPT !.build_method = m.build_method,
              !.method_imported = m.method_imported]

NoRequest ==
    [library_name |-> <<>>, library_version |-> <<>>, python_version |-> <<>>,
     android_api |-> <<>>, target_triplet |-> <<>>, target_abi |-> <<>>,
     build_method |-> "", method_imported |-> FALSE]

\* lib_dir = download_path / "prefix" / "lib": one path, whatever the version
NoRuntime == [python_version |-> <<>>, target_triplet |-> <<>>, full_version |-> <<>>]

\* ndk_bin: the entries directly in the NDK's toolchain bin directory
EmptyTemp ==
    [ndk |-> FALSE, ndk_zip |-> FALSE, ndk_bin |-> {}, lib |-> NoRuntime,
     archives |-> {}]

\* pyproject.toml of the cloned project: absent, or its build-backend
\* ("" when the key or the build-system table is missing)
PyprojectKinds == {"absent", "maturin", "setuptools", ""}

NoSource ==
    [state |-> "absent", pyproject |-> "absent", cargo_config |-> <<>>,
     venv |-> "absent"]

\* type and place of the exception that ended the run, and what the script
\* printed about it before raising
NoError == [type |-> "", at |-> "", printed |-> <<>>]

\* An exception that nothing catches ends the run.
RaiseWith(type, at, printed) ==
    /\ pc' = "failed"
    /\ error' = [type |-> type, at |-> at, printed |-> printed]

Raise(type, at) == RaiseWith(type, at, <<>>)

(***************************************************************************)
(* setup_python_cross_build                                                *)
(***************************************************************************)
\* Tag listings the upstream API may answer with during a run.
SeenListings == {
    <<[ok |-> TRUE, tags |-> << <<"v", "3", ".", "1", "4", ".", "2">> >>]>>,
    <<[ok |-> TRUE, tags |-> << <<"v", "3", ".", "1", "5", ".", "7">> >>],
      [ok |-> FALSE, tags |-> <<>>]>>
}

\* python_version_map.get(python_version)
PythonVersionMap(python_version) ==
    IF python_version = V313 THEN V313 \o <<".", "9">> ELSE <<>>

\* int(minor_str) of major_str, minor_str = python_version.split('.')
MinorOf(python_version) == IntOf(Split(python_version, ".")[2])

RECURSIVE Repeat(_, _)
Repeat(x, n) == IF n = 0 THEN <<>> ELSE <<x>> \o Repeat(x, n - 1)

\* The whole function on the cache t for the request r: listing is what the
\* tag API answers, download how the archive download ends ("ok", "404",
\* "500", "error"), extracted whether the archive holds prefix/lib.
\* The answer is [t, io, raised, returned, tag_failed, printed]: tag_failed
\* tells whether the tag query failed and was answered by the fallback,
\* printed what the except branch of the download printed.
\* print(f"Could not find version {full_python_version} on python.org.")
NotOnPythonOrg == "Could not find version on python.org"

setup_python_cross_build(t, r, listing, download, extracted) ==
    LET minor == MinorOf(r.python_version)
        tags == get_latest_patch_for_python(r.python_version, listing)
        full_python_version ==
            IF minor = 13 THEN PythonVersionMap(r.python_version)
            ELSE tags.version
        tag_io == IF minor = 13 THEN <<>>
                  ELSE Repeat("GET api.github.com tags", Len(tags.fetched))
        tag_failed == minor # 13 /\ tags.failed
        archive == [full_version |-> full_python_version,
                    target_triplet |-> r.target_triplet]
        cached == archive \in t.archives
        dl_io == IF cached THEN <<>> ELSE <<"download python archive">>
        runtime == [python_version |-> r.python_version,
                    target_triplet |-> r.target_triplet,
                    full_version |-> full_python_version]
    IN  IF t.lib # NoRuntime
        THEN [t |-> t, io |-> <<>>, raised |-> "", returned |-> t.lib,
              tag_failed |-> FALSE, printed |-> <<>>]
        ELSE IF minor < 13 \/ (minor = 13 /\ full_python_version = <<>>)
        THEN [t |-> t, io |-> <<>>, raised |-> "ValueError", returned |-> NoRuntime,
              tag_failed |-> FALSE, printed |-> <<>>]
        ELSE IF ~cached /\ download # "ok"
        THEN [t |-> t, io |-> tag_io \o dl_io,
              raised |-> CASE download = "404" -> "HTTPError 404"
                           [] download = "500" -> "HTTPError 500"
                           [] OTHER -> "URLError",
              returned |-> NoRuntime, tag_failed |-> tag_failed,
              printed |-> IF download \notin {"404", "500"} THEN <<>>
                          ELSE IF minor >= 14 /\ download = "404"
                          THEN <<"Failed to download", NotOnPythonOrg>>
                          ELSE <<"Failed to download">>]
        ELSE IF ~extracted
        THEN [t |-> [t EXCEPT !.archives = @ \cup {archive}],
              io |-> tag_io \o dl_io \o <<"unpack python archive">>,
              raised |-> "FileNotFoundError", returned |-> NoRuntime,
              tag_failed |-> tag_failed, printed |-> <<>>]
        ELSE [t |-> [t EXCEPT !.archives = @ \cup {archive}, !.lib = runtime],
              io |-> tag_io \o dl_io \o <<"unpack python archive">>,
              raised |-> "", returned |-> runtime, tag_failed |-> tag_failed,
              printed |-> <<>>]

(***************************************************************************)
(* setup_ndk                                                               *)
(***************************************************************************)
\* The toolchain bin directory as the archive holds it: a tool without
\* execute permission, one with it, and a directory
NdkArchiveBin ==
    {[name |-> "clang", kind |-> "file", exec |-> FALSE],
     [name |-> "llvm-ar", kind |-> "file", exec |-> TRUE],
     [name |-> "lib", kind |-> "dir", exec |-> FALSE]}

\* for tool in toolchain_bin_path.glob("*"):
\*     if tool.is_file(): tool.chmod(tool.stat().st_mode | 0o111)
ChmodBin(bin) ==
    {IF e.kind = "file" THEN [e EXCEPT !.exec = TRUE] ELSE e : e \in bin}

\* The whole function on the cache t: download how the archive download
\* ends, unpacked whether android-ndk-<version> is there after extraction.
\* A plausible slip: the cache test looks at the downloaded archive, which a
\* complete installation has deleted.
setup_ndk_ChecksArchive(t, download, unpacked) ==
    IF t.ndk_zip
    THEN [t |-> t, io |-> <<>>, raised |-> ""]
    ELSE IF download # "ok"
    THEN [t |-> t, io |-> <<"download ndk">>, raised |-> "URLError"]
    ELSE IF ~unpacked
    THEN [t |-> [t EXCEPT !.ndk_zip = TRUE],
          io |-> <<"download ndk", "unpack ndk">>,
          raised |-> "FileNotFoundError"]
    ELSE [t |-> [t EXCEPT !.ndk = TRUE, !.ndk_zip = FALSE,
                          !.ndk_bin = ChmodBin(NdkArchiveBin)],
          io |-> <<"download ndk", "unpack ndk", "rename ndk", "unlink ndk zip",
                   "chmod ndk bin">>,
          raised |-> ""]

\* A plausible slip: the loop over the bin directory is left out.
setup_ndk_NoChmod(t, download, unpacked) ==
    IF t.ndk
    THEN [t |-> t, io |-> <<>>, raised |-> ""]
    ELSE IF download # "ok"
    THEN [t |-> t, io |-> <<"download ndk">>, raised |-> "URLError"]
    ELSE IF ~unpacked
    THEN [t |-> [t EXCEPT !.ndk_zip = TRUE],
          io |-> <<"download ndk", "unpack ndk">>,
          raised |-> "FileNotFoundError"]
    ELSE [t |-> [t EXCEPT !.ndk = TRUE, !.ndk_zip = FALSE,
                          !.ndk_bin = NdkArchiveBin],
          io |-> <<"download ndk", "unpack ndk", "rename ndk", "unlink ndk zip">>,
          raised |-> ""]

setup_ndk(t, download, unpacked) ==
    IF t.ndk
    THEN [t |-> t, io |-> <<>>, raised |-> ""]
    ELSE IF download # "ok"
    THEN [t |-> t, io |-> <<"download ndk">>, raised |-> "URLError"]
    ELSE IF ~unpacked
    THEN [t |-> [t EXCEPT !.ndk_zip = TRUE],
          io |-> <<"download ndk", "unpack ndk">>,
          raised |-> "FileNotFoundError"]
    ELSE [t |-> [t EXCEPT !.ndk = TRUE, !.ndk_zip = FALSE,
                          !.ndk_bin = ChmodBin(NdkArchiveBin)],
          io |-> <<"download ndk", "unpack ndk", "rename ndk", "unlink ndk zip",
                   "chmod ndk bin">>,
          raised |-> ""]

(***************************************************************************)
(* clone_library_source                                                    *)
(***************************************************************************)
\* A plausible slip: the existence check is left out and git runs again.
clone_library_source_AlwaysClones(tree, r, cloned, submodules, pyproject) ==
    LET clone_cmd == IF r.library_version # <<>>
                     THEN "git clone --depth=1 --branch"
                     ELSE "git clone --depth=1"
    IN  IF ~cloned
        THEN [tree |-> tree, io |-> <<clone_cmd>>, raised |-> "CalledProcessError"]
        ELSE [tree |-> [tree EXCEPT !.state = "complete", !.pyproject = pyproject],
              io |-> <<clone_cmd, "git submodule update">>,
              raised |-> ""]

\* The whole function on the tree: cloned and submodules tell whether the
\* two git commands succeed, pyproject what the cloned project declares.
clone_library_source(tree, r, cloned, submodules, pyproject) ==
    LET clone_cmd == IF r.library_version # <<>>
                     THEN "git clone --depth=1 --branch"
                     ELSE "git clone --depth=1"
    IN  IF tree.state # "absent"
        THEN [tree |-> tree, io |-> <<>>, raised |-> ""]
        ELSE IF ~cloned
        THEN [tree |-> tree, io |-> <<clone_cmd>>, raised |-> "CalledProcessError"]
        ELSE IF ~submodules
        THEN [tree |-> [tree EXCEPT !.state = "cloned", !.pyproject = pyproject],
              io |-> <<clone_cmd, "git submodule update">>,
              raised |-> "CalledProcessError"]
        ELSE [tree |-> [tree EXCEPT !.state = "complete", !.pyproject = pyproject],
              io |-> <<clone_cmd, "git submodule update">>,
              raised |-> ""]

(***************************************************************************)
(* process_wheel                                                           *)
(*                                                                         *)
(* A file of the project tree is [dir, name, mtime]: the directory it is   *)
(* directly in (relative to project_path), its name and its st_mtime.      *)
(***************************************************************************)
WheelsDir == "target/wheels"
DistDir == "dist"
ProjectDirs == {WheelsDir, DistDir}

DotWhl == <<".", "w", "h", "l">>

\* a-1-x.whl, a-2-x.whl, a-1-x.whl.bak and a.whl
FileNames == {
    <<"a", "-", "1", "-", "x">> \o DotWhl,
    <<"a", "-", "2", "-", "x">> \o DotWhl,
    <<"a", "-", "1", "-", "x">> \o DotWhl \o <<".", "b", "a", "k">>,
    <<"a">> \o DotWhl
}

FileEntries == [dir : ProjectDirs, name : FileNames, mtime : 1..MaxMtime]

\* A directory holds one file per name.
FileSets ==
    {fs \in SUBSET FileEntries :
        /\ Cardinality(fs) <= MaxFiles
        /\ \A f, g \in fs : (f.dir = g.dir /\ f.name = g.name) => f = g}

NoEntry == [dir |-> "", name |-> <<>>, mtime |-> 0]
NoOutput == [exists |-> FALSE, files |-> {}]

\* Every order in which a directory scan may list the set S
Listings(S) ==
    {l \in [1..Cardinality(S) -> S] : \A i, j \in 1..Cardinality(S) :
        l[i] = l[j] => i = j}

\* A plausible slip: the pattern "*.whl*".
IsWheelName_Prefix(name) ==
    \E i \in 1..(Len(name) - 3) : SubSeq(name, i, i + 3) = DotWhl

\* glob pattern "*.whl"
IsWheelName(name) == EndsWith(name, DotWhl)

\* search_path.glob("*.whl"): the files directly in search_path
GlobDirect(fs, search_path) ==
    {f \in fs : f.dir = search_path /\ IsWheelName(f.name)}

\* Path(project_path).glob("**/*.whl"): the files anywhere under project_path
GlobRecursive(fs) == {f \in fs : IsWheelName(f.name)}

RECURSIVE InsertByMtimeDesc(_, _)
\* Insert f after every entry whose mtime is greater than or equal to f's.
InsertByMtimeDesc(sorted, f) ==
    IF sorted = <<>> THEN <<f>>
    ELSE IF Head(sorted).mtime >= f.mtime
    THEN <<Head(sorted)>> \o InsertByMtimeDesc(Tail(sorted), f)
    ELSE <<f>> \o sorted

RECURSIVE SortByMtimeDesc(_)
\* sorted(wheel_files, key=st_mtime, reverse=True): stable, newest first
SortByMtimeDesc(l) ==
    IF l = <<>> THEN <<>>
    ELSE InsertByMtimeDesc(SortByMtimeDesc(SubSeq(l, 1, Len(l) - 1)), l[Len(l)])

\* A plausible slip: search the whole tree whatever the primary search found.
FindWheels_AlwaysRecursive(primary_listing, recursive_listing) ==
    [wheel_files |-> recursive_listing, searched |-> <<"primary", "everywhere">>]

\* The primary search, then the recursive one if the first list is empty.
FindWheels(primary_listing, recursive_listing) ==
    IF primary_listing # <<>>
    THEN [wheel_files |-> primary_listing, searched |-> <<"primary">>]
    ELSE [wheel_files |-> recursive_listing,
          searched |-> <<"primary", "everywhere">>]

\* str.replace(old, new) for one-character old and new
ReplaceChar(s, old, new) ==
    [i \in 1..Len(s) |-> IF s[i] = old THEN new ELSE s[i]]

\* str.replace(old, "") for a one-character old
RemoveChar(s, old) == SelectSeq(s, LAMBDA c : c # old)

\* A plausible slip: the ABI goes into the name as given, dashes included.
NewWheelName_RawAbi(a, version_to_use) ==
    LET normalized_lib_name == ReplaceChar(a.library_name, "-", "_")
        py_tag == <<"c", "p">> \o RemoveChar(a.python_version, ".")
    IN  normalized_lib_name \o <<"-">> \o version_to_use \o <<"-">> \o py_tag
            \o <<"-">> \o py_tag
            \o <<"-", "a", "n", "d", "r", "o", "i", "d", "_">> \o a.android_api
            \o <<"_">> \o a.target_abi \o DotWhl

\* f"{normalized_lib_name}-{version_to_use}-{py_tag}-{py_tag}-android_{android_api}_{platform_arch}.whl"
NewWheelName(a, version_to_use) ==
    LET normalized_lib_name == ReplaceChar(a.library_name, "-", "_")
        platform_arch == ReplaceChar(a.target_abi, "-", "_")
        py_tag == <<"c", "p">> \o RemoveChar(a.python_version, ".")
    IN  normalized_lib_name \o <<"-">> \o version_to_use \o <<"-">> \o py_tag
            \o <<"-">> \o py_tag
            \o <<"-", "a", "n", "d", "r", "o", "i", "d", "_">> \o a.android_api
            \o <<"_">> \o platform_arch \o DotWhl

\* shutil.move into the output directory, created if needed; a file of the
\* same name is replaced.
MoveToOutput(out, new_wheel_name, wheel_path) ==
    [exists |-> TRUE,
     files |-> {o \in out.files : o.name # new_wheel_name}
                   \cup {[name |-> new_wheel_name, from |-> wheel_path]}]

\* A plausible slip: the output directory is created before the version is
\* read from the name.
process_wheel_MkdirFirst(a, fs, out, primary_listing, recursive_listing) ==
    LET found == FindWheels(primary_listing, recursive_listing)
        wheel_path == Head(SortByMtimeDesc(found.wheel_files))
        parts == Split(wheel_path.name, "-")
        version_to_use ==
            IF a.library_version # <<>> THEN a.library_version ELSE parts[2]
    IN  IF found.wheel_files = <<>>
        THEN [files |-> fs, out |-> out, new_name |-> <<>>,
              error |-> "FileNotFoundError",
              searched |-> found.searched, selected |-> NoEntry]
        ELSE IF a.library_version = <<>> /\ Len(parts) < 2
        THEN [files |-> fs, out |-> [out EXCEPT !.exists = TRUE],
              new_name |-> <<>>, error |-> "ValueError",
              searched |-> found.searched, selected |-> wheel_path]
        ELSE [error |-> "",
              searched |-> found.searched,
              selected |-> wheel_path,
              new_name |-> NewWheelName(a, version_to_use),
              files |-> fs \ {wheel_path},
              out |-> MoveToOutput(out, NewWheelName(a, version_to_use),
                                   wheel_path)]

\* process_wheel on the tree fs and the output directory out, the two
\* directory scans listing their matches as primary_listing and
\* recursive_listing.
process_wheel(a, fs, out, primary_listing, recursive_listing) ==
    LET found == FindWheels(primary_listing, recursive_listing)
        wheel_path == Head(SortByMtimeDesc(found.wheel_files))
        parts == Split(wheel_path.name, "-")
        version_to_use ==
            IF a.library_version # <<>> THEN a.library_version ELSE parts[2]
        unchanged == [files |-> fs, out |-> out, new_name |-> <<>>]
    IN  IF found.wheel_files = <<>>
        THEN unchanged @@ [error |-> "FileNotFoundError",
                           searched |-> found.searched, selected |-> NoEntry]
        ELSE IF a.library_version = <<>> /\ Len(parts) < 2
        THEN unchanged @@ [error |-> "ValueError",
                           searched |-> found.searched, selected |-> wheel_path]
        ELSE [error |-> "",
              searched |-> found.searched,
              selected |-> wheel_path,
              new_name |-> NewWheelName(a, version_to_use),
              files |-> fs \ {wheel_path},
              out |-> MoveToOutput(out, NewWheelName(a, version_to_use),
                                   wheel_path)]

NoWheelResult ==
    [error |-> "", searched |-> <<>>, selected |-> NoEntry, new_name |-> <<>>]

\* search_path = project_path / "target" / "wheels" if is_maturin else project_path / "dist"
SearchPath(a) == IF a.is_maturin THEN WheelsDir ELSE DistDir

\* The tree and output directory when no wheel processing is modelled.
WheelIdle ==
    /\ files = {}
    /\ out_dir = NoOutput
    /\ pw_args = <<>>
    /\ pw_out = NoWheelResult

(***************************************************************************)
(* patch_orjson_for_android                                                *)
(*                                                                         *)
(* A Rust source file is a sequence of pieces of text. The pieces the      *)
(* patch looks for or writes are named; CODE is any other text.            *)
(*   FILE_GUARD  #![cfg(any(target_arch = "x86", target_arch = "x86_64"))] *)
(*   CFG_GUARD   #[cfg(any(target_arch = "x86", target_arch = "x86_64"))]  *)
(*   CALL_AVX512 if std::is_x86_feature_detected!("avx512vl") {            *)
(*   CALL_AVX2   if std::is_x86_feature_detected!("avx2") {                *)
(*   NL a newline, NL_INDENT a newline and eight spaces                    *)
(***************************************************************************)
Avx512Pieces == {"FILE_GUARD", "CODE"}
PystrPieces == {"CFG_GUARD", "CALL_AVX512", "CALL_AVX2", "CODE"}

NoFile == [exists |-> FALSE, text |-> <<>>]
FileOf(text) == [exists |-> TRUE, text |-> text]

\* needle in text, for a needle that is one piece
Contains(text, piece) == \E i \in 1..Len(text) : text[i] = piece

RECURSIVE Replace(_, _, _)
\* str.replace(old, new): every occurrence of the piece old, left to right
Replace(text, old, new) ==
    IF text = <<>> THEN <<>>
    ELSE (IF Head(text) = old THEN new ELSE <<Head(text)>>)
             \o Replace(Tail(text), old, new)

\* avx512.rs: prefix the whole-file guard unless the text contains it.
PatchAvx512(file) ==
    IF ~file.exists THEN file
    ELSE IF ~Contains(file.text, "FILE_GUARD")
    THEN FileOf(<<"FILE_GUARD", "NL">> \o file.text)
    ELSE file

\* pystr.rs: the two replace calls; the file is written when the text changed.
PatchPystr(file) ==
    IF ~file.exists THEN file
    ELSE LET patched1 == Replace(file.text, "CALL_AVX512",
                                 <<"CFG_GUARD", "NL_INDENT", "CALL_AVX512">>)
             patched2 == Replace(patched1, "CALL_AVX2",
                                 <<"CFG_GUARD", "NL_INDENT", "CALL_AVX2">>)
         IN  FileOf(patched2)

\* ok1 and ok2, read back from the files after writing
PatchVerified(avx512, pystr) ==
    /\ avx512.exists /\ Contains(avx512.text, "FILE_GUARD")
    /\ pystr.exists /\ Contains(pystr.text, "CFG_GUARD")

patch_orjson_for_android(avx512, pystr) ==
    LET a == PatchAvx512(avx512)
        p == PatchPystr(pystr)
    IN  [avx512 |-> a, pystr |-> p, warned |-> ~PatchVerified(a, p)]

(***************************************************************************)
(* Environments: a mapping from variable names to values, both texts.      *)
(* A name that is not in the DOMAIN is not set.                            *)
(***************************************************************************)
PATH == <<"PATH">>
CC == <<"CC">>
CXX == <<"CXX">>
AR == <<"AR">>
CFLAGS == <<"CFLAGS">>
LDFLAGS == <<"LDFLAGS">>
RUSTFLAGS == <<"RUSTFLAGS">>
PYO3_CROSS == <<"PYO3_CROSS">>
PYO3_CROSS_PYTHON_VERSION == <<"PYO3_CROSS_PYTHON_VERSION">>
PYO3_CROSS_PYTHON_IMPLEMENTATION == <<"PYO3_CROSS_PYTHON_IMPLEMENTATION">>
PYO3_CROSS_LIB_DIR == <<"PYO3_CROSS_LIB_DIR">>
ORJSON_DISABLE_YYJSON == <<"ORJSON_DISABLE_YYJSON">>
CARGO_COMMAND == <<"CARGO_COMMAND">>

\* {} of Python
EmptyEnv == [n \in {} |-> <<>>]

\* e.get(k, default)
Get(e, k, default) == IF k \in DOMAIN e THEN e[k] ELSE default

\* e[k] = v
Set(e, k, v) == [n \in DOMAIN e \cup {k} |-> IF n = k THEN v ELSE e[n]]

\* e.pop(k, None)
Pop(e, k) == [n \in DOMAIN e \ {k} |-> e[n]]

\* e.setdefault(k, v)
SetDefault(e, k, v) == IF k \in DOMAIN e THEN e ELSE Set(e, k, v)

\* What the invoking process may have set besides PATH
AmbientSettings == {
    [name |-> RUSTFLAGS, value |-> <<"-C target-feature=+avx2">>],
    [name |-> PYO3_CROSS_LIB_DIR, value |-> <<"/opt/python/lib">>],
    [name |-> ORJSON_DISABLE_YYJSON, value |-> <<"0">>]
}

\* os.environ with the settings S
EnvironOf(S) ==
    [n \in {PATH} \cup {x.name : x \in S} |->
        IF n = PATH THEN <<"/usr/bin">>
        ELSE (CHOOSE x \in S : x.name = n).value]

\* os.environ of an invocation
Environs == {EnvironOf(S) : S \in SUBSET AmbientSettings}

\* os.environ of a CI job: nothing set besides PATH
CleanEnviron == EnvironOf({})

\* ndk_path = temp_dir / f"android-ndk-{ndk_version}"
NdkPath == <<"RUNNER_TEMP", "/android-ndk-r26d">>

\* lib_dir = download_path / "prefix" / "lib"
LibDirPath == <<"RUNNER_TEMP", "/prefix", "/lib">>

\* str.upper() on the characters of a triplet
Upper(c) ==
    LET lower == <<"a", "b", "c", "d", "e", "f", "g", "h", "i", "j", "k", "l",
                   "m", "n", "o", "p", "q", "r", "s", "t", "u", "v", "w", "x",
                   "y", "z">>
        upper == <<"A", "B", "C", "D", "E", "F", "G", "H", "I", "J", "K", "L",
                   "M", "N", "O", "P", "Q", "R", "S", "T", "U", "V", "W", "X",
                   "Y", "Z">>
    IN  IF \E i \in 1..Len(lower) : lower[i] = c
        THEN upper[CHOOSE i \in 1..Len(lower) : lower[i] = c]
        ELSE c

\* f"CARGO_TARGET_{cargo_prefix}_AR" with
\* cargo_prefix = target_triplet.upper().replace("-", "_")
CargoTargetAr(target_triplet) ==
    <<"CARGO_TARGET_">>
        \o [i \in 1..Len(target_triplet) |->
               IF Upper(target_triplet[i]) = "-" THEN "_"
               ELSE Upper(target_triplet[i])]
        \o <<"_AR">>

\* A plausible slip: the mapping is built from scratch, not from a copy of
\* the process environment.
prepare_build_environment_Replaces(environ, ndk_path, target_triplet, android_api) ==
    LET toolchain == ndk_path \o <<"/toolchains", "/llvm", "/prebuilt", "/linux-x86_64">>
        sysroot_flags == <<"--sysroot=">> \o toolchain \o <<"/sysroot">>
        e1 == Set(EmptyEnv, PATH, toolchain \o <<"/bin", ":">> \o environ[PATH])
        e2 == Set(e1, CC, target_triplet \o android_api \o <<"-", "c", "l", "a", "n", "g">>)
        e3 == Set(e2, CXX, target_triplet \o android_api
                               \o <<"-", "c", "l", "a", "n", "g", "+", "+">>)
        e4 == Set(e3, AR, <<"llvm-ar">>)
        e5 == Set(e4, CFLAGS, sysroot_flags)
        e6 == Set(e5, LDFLAGS, sysroot_flags)
    IN  Set(e6, CargoTargetAr(target_triplet), <<"llvm-ar">>)

\* A plausible slip: the per-target variable is named after the triplet as
\* it is written.
prepare_build_environment_RawTriplet(environ, ndk_path, target_triplet, android_api) ==
    LET toolchain == ndk_path \o <<"/toolchains", "/llvm", "/prebuilt", "/linux-x86_64">>
        sysroot_flags == <<"--sysroot=">> \o toolchain \o <<"/sysroot">>
        e1 == Set(environ, PATH, toolchain \o <<"/bin", ":">> \o environ[PATH])
        e2 == Set(e1, CC, target_triplet \o android_api \o <<"-", "c", "l", "a", "n", "g">>)
        e3 == Set(e2, CXX, target_triplet \o android_api
                               \o <<"-", "c", "l", "a", "n", "g", "+", "+">>)
        e4 == Set(e3, AR, <<"llvm-ar">>)
        e5 == Set(e4, CFLAGS, sysroot_flags)
        e6 == Set(e5, LDFLAGS, sysroot_flags)
    IN  Set(e6, <<"CARGO_TARGET_">> \o target_triplet \o <<"_AR">>, <<"llvm-ar">>)

\* prepare_build_environment(ndk_path, target_triplet, android_api) under
\* the process environment environ
prepare_build_environment(environ, ndk_path, target_triplet, android_api) ==
    LET toolchain == ndk_path \o <<"/toolchains", "/llvm", "/prebuilt", "/linux-x86_64">>
        toolchain_bin == toolchain \o <<"/bin">>
        sysroot_flags == <<"--sysroot=">> \o toolchain \o <<"/sysroot">>
        e1 == Set(environ, PATH, toolchain_bin \o <<":">> \o environ[PATH])
        e2 == Set(e1, CC, target_triplet \o android_api \o <<"-", "c", "l", "a", "n", "g">>)
        e3 == Set(e2, CXX, target_triplet \o android_api
                               \o <<"-", "c", "l", "a", "n", "g", "+", "+">>)
        e4 == Set(e3, AR, <<"llvm-ar">>)
        e5 == Set(e4, CFLAGS, sysroot_flags)
        e6 == Set(e5, LDFLAGS, sysroot_flags)
    IN  Set(e6, CargoTargetAr(target_triplet), <<"llvm-ar">>)

\* The PyO3 settings every build function makes on its build_env
SetPyo3Cross(e, python_version) ==
    LET e1 == Set(e, PYO3_CROSS, <<"1">>)
        e2 == Set(e1, PYO3_CROSS_PYTHON_VERSION, python_version)
    IN  Set(e2, PYO3_CROSS_PYTHON_IMPLEMENTATION,
            Get(e2, PYO3_CROSS_PYTHON_IMPLEMENTATION, <<"CPython">>))

\* build_env.pop("RUSTFLAGS", None); build_env.setdefault("ORJSON_DISABLE_YYJSON", "1")
WorkaroundEnv(e) == SetDefault(Pop(e, RUSTFLAGS), ORJSON_DISABLE_YYJSON, <<"1">>)

\* build_env["RUSTFLAGS"] = f"{build_env.get('RUSTFLAGS', '')} {verbose_linker_flag}"
AddVerboseLinkerFlag(e) ==
    Set(e, RUSTFLAGS, Get(e, RUSTFLAGS, <<>>) \o <<" ", "-C link-arg=-Wl,-v">>)

(***************************************************************************)
(* patch_pyo3_cargo_toml                                                   *)
(*                                                                         *)
(* Cargo.toml is the data tomllib reads from it: the package name, the     *)
(* [dependencies] table with another dependency and the pyo3 entry, and    *)
(* whether its text is as authored or as tomli_w writes it.                *)
(***************************************************************************)
ExtensionModule == "extension-module"

\* Feature lists of a pyo3 entry: no feature named twice
FeatureLists ==
    {l \in UNION {[1..n -> {ExtensionModule, "abi3"}] : n \in 0..MaxFeatures} :
        \A i, j \in 1..Len(l) : l[i] = l[j] => i = j}

\* dependencies.get("pyo3"): None, a string, a table (version "none" when
\* it has no version key, extra: it has another key), or a value of another
\* type that is falsy (0, []) or not
NoPyo3 ==
    [kind |-> "absent", version |-> "none", has_features |-> FALSE,
     features |-> <<>>, extra |-> FALSE, truthy |-> FALSE]

Pyo3Entries ==
    {NoPyo3}
    \cup {[NoPyo3 EXCEPT !.kind = "string", !.version = v, !.truthy = (v # "")] :
             v \in {"", "0.22"}}
    \cup {[kind |-> "table", version |-> v, has_features |-> h, features |-> f,
           extra |-> x, truthy |-> (v # "none" \/ h \/ x)] :
             v \in {"none", "0.22"}, h \in BOOLEAN, f \in FeatureLists,
             x \in BOOLEAN}
    \cup {[NoPyo3 EXCEPT !.kind = "other", !.truthy = t] : t \in BOOLEAN}

NoCargoToml ==
    [exists |-> FALSE, layout |-> "", package |-> "", has_dependencies |-> FALSE,
     serde |-> FALSE, pyo3 |-> NoPyo3]

CargoTomls ==
    {NoCargoToml}
    \cup {c \in [exists : {TRUE}, layout : {"authored"}, package : {"p", "q"},
                 has_dependencies : BOOLEAN, serde : BOOLEAN,
                 pyo3 : Pyo3Entries] :
            /\ ~c.has_dependencies => (~c.serde /\ c.pyo3 = NoPyo3)
            /\ c.pyo3.kind = "table" => (c.pyo3.has_features \/ c.pyo3.features = <<>>)}

\* A plausible slip: the version of the bare string is not carried over.
Pyo3AsTable_DropsVersion(pyo3_dep) ==
    IF pyo3_dep.kind = "string"
    THEN [pyo3_dep EXCEPT !.kind = "table", !.version = "none"]
    ELSE pyo3_dep

\* if isinstance(pyo3_dep, str): pyo3_dep = {"version": pyo3_dep}
Pyo3AsTable(pyo3_dep) ==
    IF pyo3_dep.kind = "string"
    THEN [pyo3_dep EXCEPT !.kind = "table"]
    ELSE pyo3_dep

\* A plausible slip: the feature is appended without looking.
NeedsExtensionModule_Always(features) == TRUE

\* "extension-module" not in features
NeedsExtensionModule(features) ==
    \A i \in 1..Len(features) : features[i] # ExtensionModule

\* The whole function on the file c; the answer is [cargo_toml, wrote].
patch_pyo3_cargo_toml(c) ==
    LET pyo3_dep == IF c.has_dependencies THEN c.pyo3 ELSE NoPyo3
        table == Pyo3AsTable(pyo3_dep)
        features == IF table.has_features THEN table.features ELSE <<>>
        skipped == [cargo_toml |-> c, wrote |-> FALSE]
    IN  IF ~c.exists THEN skipped
        ELSE IF pyo3_dep.kind = "absent" \/ ~pyo3_dep.truthy THEN skipped
        ELSE IF table.kind # "table" THEN skipped
        ELSE IF NeedsExtensionModule(features)
        THEN [cargo_toml |->
                  [c EXCEPT !.layout = "tomli_w",
                            !.pyo3 = [table EXCEPT
                                         !.has_features = TRUE,
                                         !.features = Append(features, ExtensionModule),
                                         !.truthy = TRUE]],
              wrote |-> TRUE]
        ELSE skipped

\* The file when no call of patch_pyo3_cargo_toml is modelled.
CargoIdle ==
    /\ cargo_toml = NoCargoToml
    /\ cg_before = NoCargoToml
    /\ cg_calls = 0
    /\ cg_wrote = FALSE

\* The state of main when no run has started.
MainIdle ==
    /\ runs = 0
    /\ req = NoRequest
    /\ temp = EmptyTemp
    /\ src = NoSource
    /\ io = <<>>
    /\ effects = {}
    /\ error = NoError
    /\ build_calls = 0
    /\ python_lib_dir = NoRuntime
    /\ os_environ = EmptyEnv
    /\ prepared_env = EmptyEnv
    /\ build_env = EmptyEnv
    /\ caught = {}

(***************************************************************************)
(* The build functions: build_wheel (native) and build_wheel_with_cross    *)
(***************************************************************************)
\* run(cmd) for each command in turn; fail_at names the command whose exit
\* status is non-zero (0: none), which raises CalledProcessError.
RunAll(cmds, fail_at) ==
    IF fail_at \in 1..Len(cmds)
    THEN [io |-> SubSeq(cmds, 1, fail_at), done |-> fail_at - 1,
          raised |-> "CalledProcessError"]
    ELSE [io |-> cmds, done |-> Len(cmds), raised |-> ""]

\* The commands of the two ensure_*_venv functions for a venv that is
\* "absent", "bare" (no bin/maturin) or "maturin"
VenvCommands(venv, uv) ==
    IF venv = "absent"
    THEN IF uv THEN <<"uv venv", "uv pip install maturin">>
         ELSE <<"python -m venv", "pip install --upgrade pip",
                "pip install maturin">>
    ELSE IF venv = "bare"
    THEN IF uv THEN <<"uv pip install maturin">> ELSE <<"pip install maturin">>
    ELSE <<>>

\* .build_venv after the first `done` of those commands succeeded
VenvAfter(venv, cmds, done) ==
    IF done = Len(cmds) THEN "maturin"
    ELSE IF venv = "absent" /\ done = 0 THEN "absent"
    ELSE "bare"

ensure_maturin_venv(tree, uv, fail_at) ==
    LET cmds == VenvCommands(tree.venv, uv)
        ran == RunAll(cmds, fail_at)
    IN  [tree |-> [tree EXCEPT !.venv = VenvAfter(tree.venv, cmds, ran.done)],
         io |-> ran.io, raised |-> ran.raised]

ensure_maturin_venv_and_cross(tree, uv, fail_at) ==
    LET cmds == VenvCommands(tree.venv, uv)
        ran == RunAll(cmds \o <<"cargo install cross">>, fail_at)
    IN  [tree |-> [tree EXCEPT !.venv =
                       VenvAfter(tree.venv, cmds,
                                 IF ran.done > Len(cmds) THEN Len(cmds)
                                 ELSE ran.done)],
         io |-> ran.io, raised |-> ran.raised]

\* The commands of ensure_maturin_venv_and_zig: an existing venv gets
\* maturin[zig] installed whether or not bin/maturin is there.
ZigVenvCommands(venv, uv) ==
    IF venv = "absent"
    THEN IF uv THEN <<"uv venv", "uv pip install maturin[zig]">>
         ELSE <<"python -m venv", "pip install --upgrade pip",
                "pip install maturin[zig]">>
    ELSE IF uv THEN <<"uv pip install maturin[zig]">>
         ELSE <<"pip install maturin[zig]">>

ensure_maturin_venv_and_zig(tree, uv, fail_at) ==
    LET cmds == ZigVenvCommands(tree.venv, uv)
        ran == RunAll(cmds, fail_at)
        after == IF ran.done = Len(cmds) THEN "maturin"
                 ELSE IF tree.venv # "absent" THEN tree.venv
                 ELSE IF ran.done = 0 THEN "absent"
                 ELSE "bare"
    IN  [tree |-> [tree EXCEPT !.venv = after],
         io |-> ran.io, raised |-> ran.raised]

\* What the commands of a step count as, for the run's record of effects
EffectOf(cmd) ==
    CASE cmd \in {"uv venv", "python -m venv"} -> "venv"
      [] cmd \in {"uv pip install maturin", "pip install --upgrade pip",
                  "pip install maturin", "cargo install cross",
                  "uv pip install maturin[zig]",
                  "pip install maturin[zig]"} -> "install"
      [] cmd = "rustup target add" -> "rustup"
      [] cmd = "maturin build" -> "build"
      [] OTHER -> cmd

EffectsOf(cmds) == {EffectOf(cmds[i]) : i \in 1..Len(cmds)}

\* The precondition of every build function: pyproject.toml is a file and
\* its build-system.build-backend, "" when missing, is "maturin".
BackendRejected(pyproject) ==
    IF pyproject = "absent" THEN TRUE ELSE pyproject # "maturin"

\* A plausible slip: the linker is named without the API level.
LinkerName_NoApi(r) ==
    r.target_triplet \o <<"-", "c", "l", "a", "n", "g">>

\* linker_name = f"{target_triplet}{android_api}-clang"
LinkerName(r) ==
    r.target_triplet \o r.android_api \o <<"-", "c", "l", "a", "n", "g">>

\* create_cargo_config: the data written to .cargo/config.toml, the table
\* "target" with the linker of each triplet it has an entry for
create_cargo_config(r) == [t \in {r.target_triplet} |-> LinkerName(r)]

\* A plausible slip: the architecture test alone, for any library.
NeedsOrjsonPatch_AnyLibrary(r) ==
    \/ HasSubstring(r.target_triplet, <<"a", "a", "r", "c", "h", "6", "4">>)
    \/ HasSubstring(r.target_triplet, <<"a", "r", "m", "6", "4">>)

\* library_name == "orjson" and ("aarch64" in target_triplet or "arm64" in target_triplet)
NeedsOrjsonPatch(r) ==
    /\ r.library_name = Orjson
    /\ \/ HasSubstring(r.target_triplet, <<"a", "a", "r", "c", "h", "6", "4">>)
       \/ HasSubstring(r.target_triplet, <<"a", "r", "m", "6", "4">>)

\* The name of the wheel the build tool writes into target/wheels
BuiltWheelName == <<"a", "-", "1", "-", "x">> \o DotWhl

\* A successful build leaves its wheel in target/wheels, newer than every
\* file there (the clock is cut at MaxMtime).
WriteBuiltWheel(fs) ==
    LET newest == IF fs = {} THEN 0
                  ELSE CHOOSE m \in {f.mtime : f \in fs} :
                           \A f \in fs : f.mtime <= m
        now == IF newest < MaxMtime THEN newest + 1 ELSE MaxMtime
    IN  {f \in fs : ~(f.dir = WheelsDir /\ f.name = BuiltWheelName)}
            \cup {[dir |-> WheelsDir, name |-> BuiltWheelName, mtime |-> now]}

(***************************************************************************)
(* Specification of the patch alone: every pair of files within the        *)
(* bounds, patched up to MaxPatchCalls times.                              *)
(***************************************************************************)
TagIdle ==
    /\ tg_pages = <<>>
    /\ tg_version = <<>>
    /\ tg_out = [version |-> <<>>, fetched |-> <<>>, failed |-> FALSE]
    /\ tg_url = 0
    /\ tg_patches = <<>>
    /\ tg_fetched = <<>>

PatchInit ==
    /\ CargoIdle
    /\ TagIdle
    /\ WheelIdle
    /\ MainIdle
    /\ pc = "patch"
    /\ avx512_rs \in {NoFile} \cup {FileOf(t) : t \in SeqsUpTo(Avx512Pieces, MaxFileLen)}
    /\ pystr_rs \in {NoFile} \cup {FileOf(t) : t \in SeqsUpTo(PystrPieces, MaxFileLen)}
    /\ pt_calls = 0
    /\ pt_warned = FALSE

PatchOrjson ==
    /\ pc = "patch"
    /\ pt_calls < MaxPatchCalls
    /\ LET r == patch_orjson_for_android(avx512_rs, pystr_rs)
       IN  /\ avx512_rs' = r.avx512
           /\ pystr_rs' = r.pystr
           /\ pt_warned' = r.warned
    /\ pt_calls' = pt_calls + 1
    /\ UNCHANGED <<pc, cargoVars, tagVars, wheelVars, mainVars>>

PatchNext == PatchOrjson

SpecPatch == PatchInit /\ [][PatchNext]_vars

\* C2: for every content of avx512.rs and pystr.rs, the files after any
\* number n >= 1 of invocations equal the files after one invocation: once
\* the tree has been patched, a further invocation changes neither file.
C2_RepatchChangesNothing ==
    [][pt_calls >= 1 => UNCHANGED <<avx512_rs, pystr_rs>>]_vars

(***************************************************************************)
(* Specification of latest-patch resolution alone: every chain of          *)
(* responses within the bounds, for two version lines.                     *)
(***************************************************************************)
NoTagResult == [version |-> <<>>, fetched |-> <<>>, failed |-> FALSE]

\* The source tree as it is when no patching is modelled.
PatchIdle ==
    /\ avx512_rs = [exists |-> FALSE, text |-> <<>>]
    /\ pystr_rs = [exists |-> FALSE, text |-> <<>>]
    /\ pt_calls = 0
    /\ pt_warned = FALSE

TagInit ==
    /\ CargoIdle
    /\ PatchIdle
    /\ WheelIdle
    /\ MainIdle
    /\ pc = "tags_call"
    /\ tg_pages \in PageChains
    /\ tg_version \in {V314, V315}
    /\ tg_out = NoTagResult
    /\ tg_url = 0
    /\ tg_patches = <<>>
    /\ tg_fetched = <<>>

ResolveTags ==
    /\ pc = "tags_call"
    /\ pc' = "tags_returned"
    /\ tg_out' = get_latest_patch_for_python(tg_version, tg_pages)
    /\ UNCHANGED <<tg_pages, tg_version, tg_url, tg_patches, tg_fetched, patchVars,
                   wheelVars, mainVars, cargoVars>>

TagNext == ResolveTags

SpecTags == TagInit /\ [][TagNext]_vars

TagReturned == pc = "tags_returned"

\* Every tag of every page of the chain, as a set.
ChainTags(pages) ==
    {pages[i].tags[k] : <<i, k>> \in
        {<<i, k>> \in (1..Len(pages)) \X (1..MaxTags + 1) :
            k <= Len(pages[i].tags)}}

\* The integer patches of the tags "v<version>.<...>.<n>" of the chain.
ChainPatches(version, pages) ==
    {n \in 0..20 : \E t \in ChainTags(pages) :
        /\ StartsWith(t, <<"v">> \o version \o <<".">>)
        /\ EndsWith(t, <<".">> \o IntText(n))}

SetMax(S) == CHOOSE m \in S : \A x \in S : x <= m

\* C3: when the fetch or decoding of any page of the listing fails, on the
\* first page or on a later one, the call returns "X.Y.0", whatever tags the
\* earlier pages held; it never answers from a partial tag set.
C3_FailureFallsBackToPatch0 ==
    (TagReturned /\ \E i \in 1..Len(tg_pages) : ~tg_pages[i].ok)
        => /\ tg_out.version = tg_version \o <<".", "0">>
           /\ tg_out.failed

\* C3 witness: page one lists v3.14.10 and v3.14.2, page two fails.
C3_Witness ==
    /\ TagReturned
    /\ tg_version = V314
    /\ Len(tg_pages) = 2
    /\ tg_pages[1].ok
    /\ tg_pages[1].tags = << <<"v", "3", ".", "1", "4", ".", "1", "0">>,
                             <<"v", "3", ".", "1", "4", ".", "2">> >>
    /\ ~tg_pages[2].ok
    /\ tg_out.fetched = <<1, 2>>

\* C4: when every page is fetched and some tag is "vX.Y.<integer>", the call
\* returns X.Y.N, N the greatest integer patch among the tags with the prefix
\* "vX.Y." on all pages, whatever their order and distribution over pages;
\* tags without the prefix do not count.
C4_MaxPatchOverAllPages ==
    (/\ TagReturned
     /\ \A i \in 1..Len(tg_pages) : tg_pages[i].ok
     /\ ChainPatches(tg_version, tg_pages) # {})
        => /\ tg_out.version = tg_version \o <<".">>
                   \o IntText(SetMax(ChainPatches(tg_version, tg_pages)))
           /\ ~tg_out.failed

\* C4 witness: the maximum (10) is on page one, listed before a smaller
\* patch, and a tag of another version line with patch 7 is on page two.
C4_Witness ==
    /\ TagReturned
    /\ tg_version = V314
    /\ Len(tg_pages) = 2
    /\ tg_pages[1].ok /\ tg_pages[2].ok
    /\ tg_pages[1].tags = << <<"v", "3", ".", "1", "4", ".", "1", "0">> >>
    /\ tg_pages[2].tags = << <<"v", "3", ".", "1", "4", ".", "2">>,
                             <<"v", "3", ".", "1", "5", ".", "7">> >>
    /\ tg_out.version = <<"3", ".", "1", "4", ".", "1", "0">>

(***************************************************************************)
(* Specification of process_wheel alone: every tree of at most MaxFiles    *)
(* files, an output directory that is absent, empty or holds an earlier    *)
(* wheel, and every order in which the scans may list their matches.       *)
(***************************************************************************)
WheelArgs ==
    [library_name : {<<"a">>, <<"a", "-", "b">>},
     library_version : {<<>>, <<"9">>},
     python_version : {V313},
     android_api : {<<"2", "4">>},
     target_abi : {<<"a", "r", "m", "6", "4", "-", "v", "8", "a">>},
     is_maturin : BOOLEAN]

EarlierOutputs ==
    {NoOutput,
     [exists |-> TRUE, files |-> {}],
     [exists |-> TRUE,
      files |-> {[name |-> <<"o", "l", "d">> \o DotWhl, from |-> NoEntry]}]}

WheelInit ==
    /\ CargoIdle
    /\ TagIdle
    /\ PatchIdle
    /\ MainIdle
    /\ pc = "process_wheel"
    /\ files \in FileSets
    /\ out_dir \in EarlierOutputs
    /\ pw_args \in WheelArgs
    /\ pw_out = NoWheelResult

ProcessWheel ==
    /\ pc = "process_wheel"
    /\ \E primary_listing \in Listings(GlobDirect(files, SearchPath(pw_args))) :
       \E recursive_listing \in
              \* the tree is scanned only after an empty primary search
              IF primary_listing # <<>> THEN {<<>>}
              ELSE Listings(GlobRecursive(files)) :
          LET r == process_wheel(pw_args, files, out_dir,
                                 primary_listing, recursive_listing)
          IN  /\ files' = r.files
              /\ out_dir' = r.out
              /\ pw_out' = [error |-> r.error, searched |-> r.searched,
                            selected |-> r.selected, new_name |-> r.new_name]
              /\ pc' = IF r.error = "" THEN "done" ELSE "failed"
    /\ UNCHANGED <<pw_args, cargoVars, tagVars, patchVars, mainVars>>

WheelNext == ProcessWheel

SpecWheel == WheelInit /\ [][WheelNext]_vars

\* The step of one process_wheel call
WheelStep == pc = "process_wheel" /\ pc' # "process_wheel"

\* Names ending in ".whl", spelled out on the last four characters
HasWhlExtension(name) ==
    /\ Len(name) >= 4
    /\ name[Len(name) - 3] = "." /\ name[Len(name) - 2] = "w"
    /\ name[Len(name) - 1] = "h" /\ name[Len(name)] = "l"

WhlIn(fs, dir) == {f \in fs : f.dir = dir /\ HasWhlExtension(f.name)}
WhlAnywhere(fs) == {f \in fs : HasWhlExtension(f.name)}

\* The candidates of a call: the .whl files directly in the primary
\* directory, or, when there is none, the .whl files of the whole tree.
Candidates(fs, a) ==
    IF WhlIn(fs, SearchPath(a)) # {} THEN WhlIn(fs, SearchPath(a))
    ELSE WhlAnywhere(fs)

\* C9: process_wheel only ever selects a file whose name ends in .whl, never
\* a file of another extension such as .whl.bak whatever its modification
\* time, and the file selected is at least as recent as every other candidate.
C9_SelectsNewestWhl ==
    [][(WheelStep /\ pw_out'.selected # NoEntry)
          => /\ pw_out'.selected \in Candidates(files, pw_args)
             /\ HasWhlExtension(pw_out'.selected.name)
             /\ \A f \in Candidates(files, pw_args) :
                    f.mtime <= pw_out'.selected.mtime]_vars

\* C9 witness: of two wheels in target/wheels the newer one, a-2-x.whl of
\* mtime 2, was moved out, although a-1-x.whl.bak there is newer than the
\* older wheel and as new as any file can be.
C9_Witness ==
    /\ pc = "done"
    /\ pw_args.is_maturin
    /\ pw_out.selected = [dir |-> WheelsDir,
                          name |-> <<"a", "-", "2", "-", "x">> \o DotWhl,
                          mtime |-> 2]
    /\ [dir |-> WheelsDir,
        name |-> <<"a", "-", "1", "-", "x">> \o DotWhl,
        mtime |-> 1] \in files
    /\ [dir |-> WheelsDir,
        name |-> <<"a", "-", "1", "-", "x">> \o DotWhl \o <<".", "b", "a", "k">>,
        mtime |-> MaxMtime] \in files
    /\ pw_out.selected \notin files

\* C10: when no .whl file is directly in the primary directory and none is
\* anywhere under the project root, process_wheel raises the not-found error
\* and the output directory is neither created nor modified; the recursive
\* search runs only when the primary directory holds no .whl file.
C10_NotFoundLeavesOutputAlone ==
    [][WheelStep
          => /\ (WhlAnywhere(files) = {}
                    => /\ pw_out'.error = "FileNotFoundError"
                       /\ pc' = "failed"
                       /\ out_dir' = out_dir
                       /\ files' = files)
             /\ (\E i \in 1..Len(pw_out'.searched) :
                        pw_out'.searched[i] = "everywhere")
                    => WhlIn(files, SearchPath(pw_args)) = {}]_vars

\* C10 witness: the call failed with only a .whl.bak file in the primary
\* directory, after both searches, and there is still no output directory.
C10_Witness ==
    /\ pc = "failed"
    /\ pw_out.error = "FileNotFoundError"
    /\ pw_out.searched = <<"primary", "everywhere">>
    /\ \E f \in files : f.dir = SearchPath(pw_args) /\ ~HasWhlExtension(f.name)
    /\ out_dir = NoOutput

\* The fields joined by sep
RECURSIVE Join(_, _)
Join(fields, sep) ==
    IF Len(fields) = 0 THEN <<>>
    ELSE IF Len(fields) = 1 THEN fields[1]
    ELSE fields[1] \o sep \o Join(Tail(fields), sep)

\* s with every dash turned into an underscore
Underscored(s) == [i \in 1..Len(s) |-> IF s[i] = "-" THEN "_" ELSE s[i]]

\* The canonical name for the arguments a and the version v
CanonicalName(a, v) ==
    LET tag == <<"c", "p">> \o SelectSeq(a.python_version, LAMBDA c : c # ".")
        platform == <<"a", "n", "d", "r", "o", "i", "d", "_">> \o a.android_api
                        \o <<"_">> \o Underscored(a.target_abi)
    IN  Join(<<Underscored(a.library_name), v, tag, tag, platform>>, <<"-">>)
            \o <<".", "w", "h", "l">>

\* C11: after a successful process_wheel the file placed in the output
\* directory is the selected wheel under the canonical name
\* {library with _}-{V}-cp{NN}-cp{NN}-android_{api}_{ABI with _}.whl, V being
\* the pinned version when one is given and otherwise the second
\* '-'-separated segment of the selected wheel's file name.
C11_OutputHasCanonicalName ==
    [][(WheelStep /\ pw_out'.error = "")
          => LET produced == pw_out'.selected
                 V == IF pw_args.library_version # <<>>
                      THEN pw_args.library_version
                      ELSE Split(produced.name, "-")[2]
                 name == CanonicalName(pw_args, V)
             IN  /\ pw_out'.new_name = name
                 /\ [name |-> name, from |-> produced] \in out_dir'.files
                 /\ produced \in files /\ produced \notin files']_vars

\* C11 witness: a-2-x.whl built for the library a-b without a pinned version
\* is in the output directory as a_b-2-cp313-cp313-android_24_arm64_v8a.whl.
C11_Witness ==
    /\ pc = "done"
    /\ pw_args.library_name = <<"a", "-", "b">>
    /\ pw_args.library_version = <<>>
    /\ pw_out.selected.name = <<"a", "-", "2", "-", "x">> \o DotWhl
    /\ \E o \in out_dir.files :
          /\ o.from = pw_out.selected
          /\ o.name = <<"a", "_", "b", "-", "2", "-", "c", "p", "3", "1", "3",
                        "-", "c", "p", "3", "1", "3", "-",
                        "a", "n", "d", "r", "o", "i", "d", "_", "2", "4", "_",
                        "a", "r", "m", "6", "4", "_", "v", "8", "a",
                        ".", "w", "h", "l">>

(***************************************************************************)
(* main: up to MaxRuns invocations of the script, one after the other,     *)
(* over the same RUNNER_TEMP, working directory and output directory.      *)
(***************************************************************************)
MainInit ==
    /\ CargoIdle
    /\ TagIdle
    /\ PatchIdle
    /\ WheelIdle
    /\ MainIdle
    /\ pc = "start"

\* The next statement of main, or the end of the run on an exception
Continue(raised, at, next) ==
    IF raised = ""
    THEN pc' = next /\ error' = error
    ELSE Raise(raised, at)

\* The orjson sources of a fresh clone: none, or the upstream layout.
SourceLayouts ==
    {[avx512 |-> NoFile, pystr |-> NoFile],
     [avx512 |-> FileOf(<<"CODE">>),
      pystr |-> FileOf(<<"CODE", "CALL_AVX512", "CODE">>)]}

\* os.environ of the runs of main: a CI job's. What an ambient RUSTFLAGS,
\* PYO3_CROSS_LIB_DIR or ORJSON_DISABLE_YYJSON does to a build function is
\* explored by SpecBuild.
MainEnvirons == {CleanEnviron}

\* The script starts: main reads the CIBW_* variables from os.environ; a
\* required one that is missing raises KeyError.
ReadEnv ==
    /\ pc \in {"start", "done", "failed"}
    /\ runs < MaxRuns
    /\ runs' = runs + 1
    /\ os_environ' \in MainEnvirons
    /\ \E complete \in BOOLEAN :
          IF complete
          THEN /\ req' \in Requests
               /\ pc' = "setup_python"
               /\ error' = NoError
          ELSE /\ req' = NoRequest
               /\ Raise("KeyError", "environ")
    /\ io' = <<>>
    /\ effects' = {}
    /\ caught' = {}
    /\ build_calls' = 0
    /\ python_lib_dir' = NoRuntime
    /\ prepared_env' = EmptyEnv
    /\ build_env' = EmptyEnv
    /\ pw_args' = <<>>
    /\ pw_out' = NoWheelResult
    /\ pt_warned' = FALSE
    /\ UNCHANGED <<cargoVars, tagVars, avx512_rs, pystr_rs, pt_calls, files, out_dir, temp, src>>

MainSetupPython ==
    /\ pc = "setup_python"
    /\ \E listing \in SeenListings, download \in {"ok", "404", "500", "error"},
          extracted \in BOOLEAN :
          LET r == setup_python_cross_build(temp, req, listing, download, extracted)
          IN  /\ temp' = r.t
              /\ io' = r.io
              /\ python_lib_dir' = r.returned
              /\ caught' = IF r.tag_failed THEN caught \cup {"tag_query"}
                           ELSE caught
              /\ IF r.raised = ""
                 THEN pc' = "setup_ndk" /\ error' = error
                 ELSE RaiseWith(r.raised, "setup_python_cross_build", r.printed)
    /\ UNCHANGED <<cargoVars, tagVars, patchVars, wheelVars, runs, req, src, effects,
                   build_calls, os_environ, prepared_env, build_env>>

MainSetupNdk ==
    /\ pc = "setup_ndk"
    /\ \E download \in {"ok", "error"}, unpacked \in BOOLEAN :
          LET r == setup_ndk(temp, download, unpacked)
          IN  /\ temp' = r.t
              /\ io' = r.io
              /\ Continue(r.raised, "setup_ndk", "clone")
    /\ UNCHANGED <<cargoVars, tagVars, patchVars, wheelVars, runs, req, src, effects,
                   build_calls, python_lib_dir, os_environ, prepared_env,
                   build_env, caught>>

MainClone ==
    /\ pc = "clone"
    /\ \E cloned \in BOOLEAN, submodules \in BOOLEAN,
          pyproject \in PyprojectKinds, layout \in SourceLayouts :
          LET r == clone_library_source(src, req, cloned, submodules, pyproject)
          IN  /\ src' = r.tree
              /\ io' = r.io
              /\ IF src.state = "absent" /\ r.tree.state # "absent"
                 THEN avx512_rs' = layout.avx512 /\ pystr_rs' = layout.pystr
                 ELSE UNCHANGED <<avx512_rs, pystr_rs>>
              /\ Continue(r.raised, "clone_library_source", "select")
    /\ UNCHANGED <<cargoVars, tagVars, pt_calls, pt_warned, wheelVars, runs, req, temp,
                   effects, build_calls, python_lib_dir, os_environ,
                   prepared_env, build_env, caught>>

\* build_method == "zig" and CAN_USE_ZIG: main passes ndk_path= and
\* android_api=, which build_wheel_with_zig does not accept. M is the set
\* of values BUILD_METHOD and the import flags may have.
SelectZig(M) ==
    /\ pc = "select"
    /\ \E m \in M :
          /\ m.build_method = "zig" /\ m.method_imported
          /\ req' = WithMethod(req, m)
    /\ io' = <<>>
    /\ effects' = effects \cup {"build_wheel_with_zig"}
    /\ Raise("TypeError", "build_wheel_with_zig")
    /\ UNCHANGED <<cargoVars, tagVars, patchVars, wheelVars, runs, temp, src,
                   build_calls, python_lib_dir, os_environ, prepared_env,
                   build_env, caught>>

SelectCross(M) ==
    /\ pc = "select"
    /\ \E m \in M :
          /\ ~(m.build_method = "zig" /\ m.method_imported)
          /\ m.build_method = "cross" /\ m.method_imported
          /\ req' = WithMethod(req, m)
    /\ io' = <<>>
    /\ effects' = effects \cup {"build_wheel_with_cross"}
    /\ pc' = "cross_backend"
    /\ UNCHANGED <<cargoVars, tagVars, patchVars, wheelVars, runs, temp, src, error,
                   build_calls, python_lib_dir, os_environ, prepared_env,
                   build_env, caught>>

\* A plausible slip: the else branch is not an else: the native build is
\* started whatever the method.
SelectNative_Always(M) ==
    /\ pc = "select"
    /\ \E m \in M : req' = WithMethod(req, m)
    /\ \E download \in {"ok", "error"}, unpacked \in BOOLEAN :
          LET r == setup_ndk(temp, download, unpacked)
          IN  /\ temp' = r.t
              /\ io' = r.io
              /\ Continue(r.raised, "setup_ndk", "native_cargo_config")
              /\ IF r.raised = ""
                 THEN /\ effects' = effects \cup {"build_wheel"}
                      /\ prepared_env' =
                             prepare_build_environment(os_environ, NdkPath,
                                 req.target_triplet, req.android_api)
                 ELSE UNCHANGED <<effects, prepared_env>>
    /\ UNCHANGED <<cargoVars, tagVars, patchVars, wheelVars, runs, src, build_calls,
                   python_lib_dir, os_environ, build_env, caught>>

\* The else branch: setup_ndk again, prepare_build_environment, build_wheel.
SelectNative(M) ==
    /\ pc = "select"
    /\ \E m \in M :
          /\ ~(m.build_method = "zig" /\ m.method_imported)
          /\ ~(m.build_method = "cross" /\ m.method_imported)
          /\ req' = WithMethod(req, m)
    /\ \E download \in {"ok", "error"}, unpacked \in BOOLEAN :
          LET r == setup_ndk(temp, download, unpacked)
          IN  /\ temp' = r.t
              /\ io' = r.io
              /\ Continue(r.raised, "setup_ndk", "native_cargo_config")
              /\ IF r.raised = ""
                 THEN /\ effects' = effects \cup {"build_wheel"}
                      /\ prepared_env' =
                             prepare_build_environment(os_environ, NdkPath,
                                 req.target_triplet, req.android_api)
                 ELSE UNCHANGED <<effects, prepared_env>>
    /\ UNCHANGED <<cargoVars, tagVars, patchVars, wheelVars, runs, src, build_calls,
                   python_lib_dir, os_environ, build_env, caught>>

MainZig == SelectZig(Methods)

MainCross == SelectCross(Methods)

MainNative == SelectNative(Methods)

(***************************************************************************)
(* The steps of the build functions                                        *)
(***************************************************************************)
\* What a step of a build function that only runs commands leaves alone
CommandFrame ==
    UNCHANGED <<cargoVars, tagVars, patchVars, wheelVars, runs, req, temp, build_calls,
                python_lib_dir, os_environ, prepared_env, build_env, caught>>

\* The pyproject.toml and build-backend checks at pc = at
BackendCheck(at, next) ==
    /\ pc = at
    /\ io' = <<>>
    /\ Continue(IF BackendRejected(src.pyproject) THEN "ValueError" ELSE "",
                "backend", next)
    /\ UNCHANGED <<src, effects>>
    /\ CommandFrame

\* run(["rustup", "target", "add", target_triplet]) at pc = at
RustupTargetAdd(at, next) ==
    /\ pc = at
    /\ \E fail_at \in 0..1 :
          LET r == RunAll(<<"rustup target add">>, fail_at)
          IN  /\ io' = r.io
              /\ effects' = effects \cup EffectsOf(r.io)
              /\ Continue(r.raised, "rustup", next)
    /\ UNCHANGED src
    /\ CommandFrame

\* A plausible slip: a failed verification of the guards ends the run.
ApplyWorkaround_FatalWarning(at, next, verbose) ==
    /\ pc = at
    /\ IF NeedsOrjsonPatch(req)
       THEN LET r == patch_orjson_for_android(avx512_rs, pystr_rs)
            IN  /\ avx512_rs' = r.avx512
                /\ pystr_rs' = r.pystr
                /\ pt_warned' = r.warned
                /\ pt_calls' = pt_calls + 1
                /\ io' = <<"patch_orjson_for_android">>
                /\ effects' = effects \cup {"patch"}
                /\ Continue(IF r.warned THEN "RuntimeError" ELSE "",
                            "patch_orjson_for_android", next)
       ELSE /\ io' = <<>>
            /\ pc' = next
            /\ UNCHANGED <<patchVars, effects, error>>
    /\ build_env' =
          LET e == IF NeedsOrjsonPatch(req) THEN WorkaroundEnv(build_env)
                   ELSE build_env
          IN  IF verbose THEN AddVerboseLinkerFlag(e) ELSE e
    /\ UNCHANGED <<cargoVars, tagVars, wheelVars, runs, req, temp, src, build_calls,
                   python_lib_dir, os_environ, prepared_env, caught>>

\* The library-specific workaround of a build function, followed in
\* build_wheel (verbose) by the diagnostic linker flag
ApplyWorkaround(at, next, verbose) ==
    /\ pc = at
    /\ pc' = next
    /\ IF NeedsOrjsonPatch(req)
       THEN LET r == patch_orjson_for_android(avx512_rs, pystr_rs)
            IN  /\ avx512_rs' = r.avx512
                /\ pystr_rs' = r.pystr
                /\ pt_warned' = r.warned
                /\ pt_calls' = pt_calls + 1
                /\ io' = <<"patch_orjson_for_android">>
                /\ effects' = effects \cup {"patch"}
                /\ caught' = IF r.warned
                             THEN caught \cup {"patch_verification"}
                             ELSE caught
       ELSE /\ io' = <<>>
            /\ UNCHANGED <<patchVars, effects, caught>>
    /\ build_env' =
          LET e == IF NeedsOrjsonPatch(req) THEN WorkaroundEnv(build_env)
                   ELSE build_env
          IN  IF verbose THEN AddVerboseLinkerFlag(e) ELSE e
    /\ UNCHANGED <<cargoVars, tagVars, wheelVars, runs, req, temp, src, error, build_calls,
                   python_lib_dir, os_environ, prepared_env>>

\* run(build_cmd, env=build_env) at pc = at
RunBuild(at) ==
    /\ pc = at
    /\ build_calls' = build_calls + 1
    /\ \E fail_at \in 0..1 :
          LET r == RunAll(<<"maturin build">>, fail_at)
          IN  /\ io' = r.io
              /\ effects' = effects \cup EffectsOf(r.io)
              /\ files' = IF r.raised = "" THEN WriteBuiltWheel(files) ELSE files
              /\ Continue(r.raised, "build", "process_wheel")
    /\ UNCHANGED <<cargoVars, tagVars, patchVars, out_dir, pw_args, pw_out, runs, req, temp,
                   src, python_lib_dir, os_environ, prepared_env, build_env,
                   caught>>

\* What a step that only derives build_env leaves alone
EnvFrame ==
    /\ io' = <<>>
    /\ UNCHANGED <<cargoVars, tagVars, patchVars, wheelVars, runs, req, temp, src, effects,
                   error, build_calls, python_lib_dir, os_environ, prepared_env,
                   caught>>

\* build_wheel: create_cargo_config
NativeCargoConfig ==
    /\ pc = "native_cargo_config"
    /\ src' = [src EXCEPT !.cargo_config = create_cargo_config(req)]
    /\ io' = <<"write .cargo/config.toml">>
    /\ effects' = effects \cup {"cargo_config"}
    /\ pc' = "native_backend"
    /\ UNCHANGED error
    /\ CommandFrame

NativeBackend == BackendCheck("native_backend", "native_venv")

NativeVenv ==
    /\ pc = "native_venv"
    /\ \E uv \in BOOLEAN, fail_at \in 0..3 :
          LET r == ensure_maturin_venv(src, uv, fail_at)
          IN  /\ src' = r.tree
              /\ io' = r.io
              /\ effects' = effects \cup EffectsOf(r.io)
              /\ Continue(r.raised, "ensure_maturin_venv", "native_rustup")
    /\ CommandFrame

\* A plausible slip: the workaround runs before the PyO3 settings are made.
NativeRustup_ThenPatch == RustupTargetAdd("native_rustup", "native_patch")

NativeRustup == RustupTargetAdd("native_rustup", "native_env")

\* A plausible slip: no copy is taken, so the settings land in the mapping
\* the caller handed over.
NativeEnv_InPlace ==
    /\ pc = "native_env"
    /\ pc' = "native_patch"
    /\ build_env' =
          LET e == SetPyo3Cross(prepared_env, req.python_version)
          IN  IF HasSubstring(req.target_triplet,
                              <<"a", "n", "d", "r", "o", "i", "d">>)
              THEN Set(e, PYO3_CROSS_LIB_DIR, LibDirPath)
              ELSE e
    /\ prepared_env' = build_env'
    /\ io' = <<>>
    /\ UNCHANGED <<cargoVars, tagVars, patchVars, wheelVars, runs, req, temp,
                   src, effects, error, build_calls, python_lib_dir,
                   os_environ, caught>>

\* build_wheel: the PyO3 settings on a copy of the mapping it was handed
NativeEnv ==
    /\ pc = "native_env"
    /\ pc' = "native_patch"
    /\ build_env' =
          LET e == SetPyo3Cross(prepared_env, req.python_version)
          IN  IF HasSubstring(req.target_triplet,
                              <<"a", "n", "d", "r", "o", "i", "d">>)
              THEN Set(e, PYO3_CROSS_LIB_DIR, LibDirPath)
              ELSE e
    /\ EnvFrame

NativePatch == ApplyWorkaround("native_patch", "native_build", TRUE)

\* run(build_cmd): the one invocation of the build command in build_wheel
NativeBuild == RunBuild("native_build")

CrossBackend == BackendCheck("cross_backend", "cross_venv")

CrossVenv ==
    /\ pc = "cross_venv"
    /\ \E uv \in BOOLEAN, fail_at \in 0..4 :
          LET r == ensure_maturin_venv_and_cross(src, uv, fail_at)
          IN  /\ src' = r.tree
              /\ io' = r.io
              /\ effects' = effects \cup EffectsOf(r.io)
              /\ Continue(r.raised, "ensure_maturin_venv_and_cross", "cross_rustup")
    /\ CommandFrame

CrossRustup == RustupTargetAdd("cross_rustup", "cross_env")

\* build_wheel_with_cross: build_env = os.environ.copy() and its settings
CrossEnv ==
    /\ pc = "cross_env"
    /\ pc' = "cross_patch"
    /\ build_env' = SetPyo3Cross(Set(os_environ, CARGO_COMMAND, <<"cross">>),
                                 req.python_version)
    /\ EnvFrame

CrossPatch == ApplyWorkaround("cross_patch", "cross_build", FALSE)

CrossBuild == RunBuild("cross_build")

ZigBackend == BackendCheck("zig_backend", "zig_venv")

ZigVenv ==
    /\ pc = "zig_venv"
    /\ \E uv \in BOOLEAN, fail_at \in 0..3 :
          LET r == ensure_maturin_venv_and_zig(src, uv, fail_at)
          IN  /\ src' = r.tree
              /\ io' = r.io
              /\ effects' = effects \cup EffectsOf(r.io)
              /\ Continue(r.raised, "ensure_maturin_venv_and_zig", "zig_rustup")
    /\ CommandFrame

ZigRustup == RustupTargetAdd("zig_rustup", "zig_env")

\* build_wheel_with_zig: build_env = os.environ.copy(), the venv's bin
\* directory in front of PATH, and the PyO3 settings
ZigEnv ==
    /\ pc = "zig_env"
    /\ pc' = "zig_patch"
    /\ build_env' =
          SetPyo3Cross(Set(os_environ, PATH,
                           <<"library-source", "/.build_venv", "/bin", ":">>
                               \o Get(os_environ, PATH, <<>>)),
                       req.python_version)
    /\ EnvFrame

ZigPatch == ApplyWorkaround("zig_patch", "zig_build", FALSE)

ZigBuild == RunBuild("zig_build")

\* main's call of process_wheel; every build function returns True.
MainProcessWheel ==
    /\ pc = "process_wheel"
    /\ LET a == [library_name |-> req.library_name,
                 library_version |-> req.library_version,
                 python_version |-> req.python_version,
                 android_api |-> req.android_api,
                 target_abi |-> req.target_abi,
                 is_maturin |-> TRUE]
       IN  /\ pw_args' = a
           /\ \E primary_listing \in Listings(GlobDirect(files, SearchPath(a))) :
              \E recursive_listing \in
                     IF primary_listing # <<>> THEN {<<>>}
                     ELSE Listings(GlobRecursive(files)) :
                 LET r == process_wheel(a, files, out_dir,
                                        primary_listing, recursive_listing)
                 IN  /\ files' = r.files
                     /\ out_dir' = r.out
                     /\ pw_out' = [error |-> r.error, searched |-> r.searched,
                                   selected |-> r.selected,
                                   new_name |-> r.new_name]
                     /\ io' = IF r.error = "" THEN <<"move wheel">> ELSE <<>>
                     /\ effects' = effects \cup
                            (IF r.error = "" THEN {"move"} ELSE {})
                     /\ Continue(r.error, "process_wheel", "done")
    /\ UNCHANGED <<cargoVars, tagVars, patchVars, runs, req, temp, src, build_calls,
                   python_lib_dir, os_environ, prepared_env, build_env, caught>>

Next ==
    \/ ReadEnv
    \/ MainSetupPython
    \/ MainSetupNdk
    \/ MainClone
    \/ MainZig
    \/ MainCross
    \/ MainNative
    \/ NativeCargoConfig
    \/ NativeBackend
    \/ NativeVenv
    \/ NativeRustup
    \/ NativeEnv
    \/ NativePatch
    \/ NativeBuild
    \/ CrossBackend
    \/ CrossVenv
    \/ CrossRustup
    \/ CrossEnv
    \/ CrossPatch
    \/ CrossBuild
    \/ MainProcessWheel

Spec == MainInit /\ [][Next]_vars

(***************************************************************************)
(* The three build functions called on their own, each with the arguments  *)
(* it declares, on a provisioned cache and a cloned tree, under every      *)
(* process environment of Environs.                                        *)
(***************************************************************************)
Aarch64Gnu == <<"a", "a", "r", "c", "h", "6", "4", "-", "u", "n", "k", "n", "o", "w", "n", "-", "l", "i", "n", "u", "x", "-", "g", "n", "u">>

BuildRequests ==
    {r \in [library_name : {Orjson, OtherLib},
            library_version : {<<>>},
            python_version : {V313, V314},
            android_api : {<<"2", "4">>},
            target_triplet : {Aarch64Android, X8664Android, Aarch64Gnu},
            target_abi : {Arm64V8a, X8664},
            build_method : {""},
            method_imported : {FALSE}] :
        (r.target_triplet = X8664Android) = (r.target_abi = X8664)}

\* The build functions and the position of their first statement
BuildFunctions ==
    {[name |-> "build_wheel", entry |-> "native_cargo_config"],
     [name |-> "build_wheel_with_cross", entry |-> "cross_backend"],
     [name |-> "build_wheel_with_zig", entry |-> "zig_backend"]}

\* The orjson sources a build function may find: those of SourceLayouts, a
\* pystr.rs without a feature-detection call, and a tree without pystr.rs
BuildLayouts ==
    SourceLayouts
    \cup {[avx512 |-> FileOf(<<"CODE">>), pystr |-> FileOf(<<"CODE">>)],
          [avx512 |-> FileOf(<<"CODE">>), pystr |-> NoFile]}

BuildInit ==
    /\ CargoIdle
    /\ TagIdle
    /\ WheelIdle
    /\ \E f \in BuildFunctions :
          /\ pc = f.entry
          /\ effects = {f.name}
          /\ req \in BuildRequests
          /\ os_environ \in Environs
          /\ prepared_env =
                IF f.name = "build_wheel"
                THEN prepare_build_environment(os_environ, NdkPath,
                         req.target_triplet, req.android_api)
                ELSE EmptyEnv
    /\ \E layout \in BuildLayouts :
          avx512_rs = layout.avx512 /\ pystr_rs = layout.pystr
    /\ pt_calls = 0
    /\ pt_warned = FALSE
    /\ runs = 1
    /\ python_lib_dir = [python_version |-> req.python_version,
                         target_triplet |-> req.target_triplet,
                         full_version |-> req.python_version \o <<".", "9">>]
    /\ temp = [ndk |-> TRUE, ndk_zip |-> FALSE,
               ndk_bin |-> ChmodBin(NdkArchiveBin), lib |-> python_lib_dir,
               archives |-> {[full_version |-> python_lib_dir.full_version,
                              target_triplet |-> req.target_triplet]}]
    /\ \E pyproject \in PyprojectKinds, venv \in {"absent", "bare", "maturin"} :
          src = [state |-> "complete", pyproject |-> pyproject,
                 cargo_config |-> <<>>, venv |-> venv]
    /\ io = <<>>
    /\ error = NoError
    /\ build_calls = 0
    /\ build_env = EmptyEnv
    /\ caught = {}

BuildNext ==
    \/ NativeCargoConfig
    \/ NativeBackend
    \/ NativeVenv
    \/ NativeRustup
    \/ NativeEnv
    \/ NativePatch
    \/ NativeBuild
    \/ CrossBackend
    \/ CrossVenv
    \/ CrossRustup
    \/ CrossEnv
    \/ CrossPatch
    \/ CrossBuild
    \/ ZigBackend
    \/ ZigVenv
    \/ ZigRustup
    \/ ZigEnv
    \/ ZigPatch
    \/ ZigBuild

SpecBuild == BuildInit /\ [][BuildNext]_vars


(***************************************************************************)
(* clone_library_source as main calls it, for requests with and without a  *)
(* pinned library version, on a source path that is absent or there.       *)
(***************************************************************************)
PinnedVersion == <<"9">>

CloneRequests ==
    {[r EXCEPT !.library_version = v] : r \in Requests, v \in {<<>>, PinnedVersion}}

\* library-source before the call: absent, or left by an earlier run whose
\* clone was complete or stopped at the submodules
CloneTrees ==
    {NoSource}
    \cup {[NoSource EXCEPT !.state = st, !.pyproject = p] :
             st \in {"cloned", "complete"}, p \in PyprojectKinds}

CloneInit ==
    /\ CargoIdle
    /\ TagIdle
    /\ PatchIdle
    /\ WheelIdle
    /\ pc = "clone"
    /\ runs = 1
    /\ req \in CloneRequests
    /\ temp = EmptyTemp
    /\ src \in CloneTrees
    /\ io = <<>>
    /\ effects = {}
    /\ error = NoError
    /\ build_calls = 0
    /\ python_lib_dir = NoRuntime
    /\ os_environ = CleanEnviron
    /\ prepared_env = EmptyEnv
    /\ build_env = EmptyEnv
    /\ caught = {}

CloneNext == MainClone

SpecClone == CloneInit /\ [][CloneNext]_vars

(***************************************************************************)
(* prepare_build_environment on its own, for every triplet of              *)
(* BuildRequests under process environments that may already set the       *)
(* variables it assigns.                                                   *)
(***************************************************************************)
\* What the invoking process may have set of the compiler variables
ToolSettings == {
    [name |-> CC, value |-> <<"gcc">>],
    [name |-> CFLAGS, value |-> <<"-O2">>]
}

PrepareEnvirons == {EnvironOf(S) : S \in SUBSET (AmbientSettings \cup ToolSettings)}

PrepareInit ==
    /\ CargoIdle
    /\ TagIdle
    /\ PatchIdle
    /\ WheelIdle
    /\ pc = "prepare"
    /\ runs = 1
    /\ req \in BuildRequests
    /\ temp = EmptyTemp
    /\ src = NoSource
    /\ io = <<>>
    /\ effects = {}
    /\ error = NoError
    /\ build_calls = 0
    /\ python_lib_dir = NoRuntime
    /\ os_environ \in PrepareEnvirons
    /\ prepared_env = EmptyEnv
    /\ build_env = EmptyEnv
    /\ caught = {}

\* build_env = prepare_build_environment(ndk_path, target_triplet, android_api):
\* the function works on os.environ.copy()
PrepareEnv ==
    /\ pc = "prepare"
    /\ pc' = "prepared"
    /\ prepared_env' = prepare_build_environment(os_environ, NdkPath,
                           req.target_triplet, req.android_api)
    /\ UNCHANGED <<cargoVars, tagVars, patchVars, wheelVars, runs, req, temp, src, io,
                   effects, error, build_calls, python_lib_dir, os_environ,
                   build_env, caught>>

PrepareNext == PrepareEnv

SpecPrepare == PrepareInit /\ [][PrepareNext]_vars

(***************************************************************************)
(* The while loop of get_latest_patch_for_python, one request per step.    *)
(* urlopen has a timeout and the script is one sequential process, so a    *)
(* step that can be taken is taken: weak fairness on both steps.           *)
(***************************************************************************)
\* The chains the loop is stepped through: up to MaxPages pages, each
\* failing or listing at most one tag (what ends the loop is the chain,
\* not the tags)
FetchChains ==
    {c \in PageChains : \A i \in 1..Len(c) : Len(c[i].tags) <= 1}

FetchInit ==
    /\ CargoIdle
    /\ PatchIdle
    /\ WheelIdle
    /\ MainIdle
    /\ pc = "while"
    /\ tg_pages \in FetchChains
    /\ tg_version \in {V314, V315}
    /\ tg_out = NoTagResult
    /\ tg_url = 1
    /\ tg_patches = <<>>
    /\ tg_fetched = <<>>

\* One iteration: the request of url, then the except branch, or the tags
\* of the page and the Link header
FetchPage ==
    /\ pc = "while"
    /\ tg_url # 0
    /\ tg_fetched' = Append(tg_fetched, tg_url)
    /\ IF ~tg_pages[tg_url].ok
       THEN /\ pc' = "returned"
            /\ tg_out' = [version |-> OnFetchError(tg_version, tg_patches),
                          fetched |-> tg_fetched', failed |-> TRUE]
            /\ UNCHANGED <<tg_url, tg_patches>>
       ELSE /\ pc' = "while"
            /\ tg_patches' = tg_patches
                   \o PagePatches(tg_pages[tg_url].tags,
                                  <<"v">> \o tg_version \o <<".">>)
            /\ tg_url' = NextUrl(LinkHeader(tg_url, Len(tg_pages)))
            /\ UNCHANGED tg_out
    /\ UNCHANGED <<tg_pages, tg_version, patchVars, wheelVars, mainVars, cargoVars>>

\* url is None: the loop is left and the function returns
ReturnLatest ==
    /\ pc = "while"
    /\ tg_url = 0
    /\ pc' = "returned"
    /\ tg_out' = [version |-> LatestFrom(tg_version, tg_patches),
                  fetched |-> tg_fetched, failed |-> FALSE]
    /\ UNCHANGED <<tg_pages, tg_version, tg_url, tg_patches, tg_fetched, patchVars,
                   wheelVars, mainVars, cargoVars>>

FetchNext ==
    \/ FetchPage
    \/ ReturnLatest

SpecFetch == FetchInit /\ [][FetchNext]_vars

SpecFetchFair == SpecFetch /\ WF_vars(FetchPage) /\ WF_vars(ReturnLatest)

(***************************************************************************)
(* patch_pyo3_cargo_toml on its own (build_wheel has its call commented    *)
(* out): every Cargo.toml of CargoTomls, patched up to MaxCargoCalls times.*)
(***************************************************************************)
CargoInit ==
    /\ TagIdle
    /\ PatchIdle
    /\ WheelIdle
    /\ MainIdle
    /\ pc = "cargo"
    /\ cargo_toml \in CargoTomls
    /\ cg_before = cargo_toml
    /\ cg_calls = 0
    /\ cg_wrote = FALSE

PatchCargoToml ==
    /\ pc = "cargo"
    /\ cg_calls < MaxCargoCalls
    /\ LET r == patch_pyo3_cargo_toml(cargo_toml)
       IN  /\ cargo_toml' = r.cargo_toml
           /\ cg_wrote' = r.wrote
    /\ cg_before' = cargo_toml
    /\ cg_calls' = cg_calls + 1
    /\ UNCHANGED <<pc, tagVars, patchVars, wheelVars, mainVars>>

CargoNext == PatchCargoToml

SpecCargo == CargoInit /\ [][CargoNext]_vars

\* C16: patch_pyo3_cargo_toml is idempotent: from the second application on
\* the file stays as the first application left it, and nothing is written.
C16_CargoPatchIdempotent ==
    cg_calls >= 2 => (cargo_toml = cg_before /\ ~cg_wrote)

\* C16 witness: a bare version string was turned into a table with the
\* feature by the first application, and the second left that file alone.
C16_Witness ==
    /\ cg_calls = 2
    /\ cargo_toml.layout = "tomli_w"
    /\ cargo_toml.pyo3.kind = "table"
    /\ cargo_toml.pyo3.version = "0.22"
    /\ cargo_toml.pyo3.features = <<ExtensionModule>>
    /\ ~cargo_toml.pyo3.extra

\* How often the feature x is in the list l
Occurrences(l, x) == Cardinality({i \in 1..Len(l) : l[i] = x})

\* A pyo3 entry the function supports: a non-empty version string or a
\* non-empty table
Supported(c) ==
    /\ c.exists /\ c.has_dependencies
    /\ c.pyo3.kind \in {"string", "table"}
    /\ c.pyo3.truthy

Entered(f) == f \in effects

\* Exceptions that come from an external command, a download or the
\* content of a downloaded archive
ExternalFailures ==
    {"CalledProcessError", "URLError", "HTTPError 404", "FileNotFoundError"}

\* C1: a native run whose build command failed and that then aborted has
\* invoked the build command a second time (the one retry) before aborting.
C1_FailedNativeBuildWasRetried ==
    (pc = "failed" /\ Entered("build_wheel") /\ error.at = "build")
        => build_calls = 2

\* C5: with the NDK path present setup_ndk downloads and extracts nothing and
\* leaves the cache as it is, and with <temp>/prefix/lib present
\* setup_python_cross_build makes no network call and returns that directory;
\* this holds for every call, in every run and for the second setup_ndk call
\* of the native branch.
C5_CachedSetupIsIdle ==
    [][/\ (pc = "setup_python" /\ temp.lib # NoRuntime)
            => (io' = <<>> /\ temp' = temp /\ python_lib_dir' = temp.lib
                /\ pc' = "setup_ndk")
       /\ (pc = "setup_ndk" /\ temp.ndk)
            => (io' = <<>> /\ temp' = temp /\ pc' = "clone")
       /\ (pc = "select" /\ temp.ndk)
            => (io' = <<>> /\ temp' = temp)]_vars

\* C5: a later run got past both setup calls without any download, the
\* runtime returned being the one an earlier run for another version cached.
C5_Witness ==
    /\ runs >= 2
    /\ pc = "clone"
    /\ io = <<>>
    /\ temp.ndk
    /\ python_lib_dir # NoRuntime
    /\ python_lib_dir = temp.lib
    /\ python_lib_dir.python_version # req.python_version

\* C6: the library directory setup_python_cross_build returned belongs to a
\* runtime downloaded for exactly the requested Python version and exactly
\* the requested target triplet.
C6_RuntimeMatchesRequest ==
    python_lib_dir # NoRuntime
        => /\ python_lib_dir.python_version = req.python_version
           /\ python_lib_dir.target_triplet = req.target_triplet

\* C7: with the module of the selected strategy available and a project that
\* declares maturin, a run fails only where an external command, download or
\* archive failed; otherwise it goes on to the build and the normalization.
C7_AvailableStrategyFailsOnlyExternally ==
    (pc = "failed" /\ req.method_imported /\ src.pyproject = "maturin")
        => error.type \in ExternalFailures

\* C8: whatever the strategy, a run that entered its build function on a
\* project without pyproject.toml or with another build-backend ends in the
\* configuration error, having created no virtual environment, installed no
\* tool, added no rust target, run no build and moved no wheel.
C8_RejectedBackendIsConfigurationError ==
    (/\ pc \notin {"select", "native_cargo_config", "native_backend",
                   "cross_backend"}
     /\ effects \cap {"build_wheel", "build_wheel_with_cross",
                      "build_wheel_with_zig"} # {}
     /\ BackendRejected(src.pyproject))
        => /\ pc = "failed"
           /\ error.type = "ValueError" /\ error.at = "backend"
           /\ effects \cap {"venv", "install", "rustup", "build", "move"} = {}

\* C12: whenever a run has completed successfully the output directory
\* holds exactly one wheel, whatever earlier runs left there.
C12_ExactlyOneArtifact ==
    pc = "done" => Cardinality(out_dir.files) = 1

\* Provisioning and acquisition have finished: the NDK and the runtime are
\* in RUNNER_TEMP, setup_python_cross_build has returned, the source is there.
Acquired ==
    /\ temp.ndk
    /\ temp.lib # NoRuntime
    /\ python_lib_dir # NoRuntime
    /\ src.state # "absent"

\* The build function has made its PyO3 settings on build_env
EnvDerived == PYO3_CROSS \in DOMAIN build_env

C14_FailFast ==
    /\ caught \subseteq {"native_build", "patch_verification"}
    /\ (pc = "failed" /\ error.at = "build" /\ Entered("build_wheel"))
          => "native_build" \in caught

\* C15: once a provisioning, download or clone step of a run has acted,
\* every field of the request, the selected strategy included, is
\* resolved; a run that lacks a required field has done nothing.
C15_RequestResolvedFirst ==
    /\ (pc \in {"setup_ndk", "clone", "select"} \/ io # <<>>)
          => (req # NoRequest /\ req.build_method # "")
    /\ error.type = "KeyError"
          => (io = <<>> /\ effects = {} /\ python_lib_dir = NoRuntime)

\* C18: a run that ended on an HTTP 404 of the runtime archive download has
\* printed the diagnostic that this version does not exist upstream, on the
\* 3.13 line as on the lines from 3.14.
C18_NotFoundIsDiagnosed ==
    error.type = "HTTPError 404"
        => \E i \in 1..Len(error.printed) : error.printed[i] = NotOnPythonOrg

\* The workaround step of the three build functions
AtWorkaround == pc \in {"native_patch", "cross_patch", "zig_patch"}

\* RUSTFLAGS after the workaround step of build_wheel, which then adds its
\* diagnostic linker flag to whatever is left
NativeRustFlags(before) == before \o <<" ", "-C link-arg=-Wl,-v">>

\* C19: in each build function the workaround (the orjson sources patched,
\* RUSTFLAGS removed, ORJSON_DISABLE_YYJSON defaulted to 1) is applied if and
\* only if the library is exactly orjson and the triplet contains aarch64 or
\* arm64; otherwise no source is patched and no variable is changed by it.
C19_WorkaroundOnlyForOrjsonArm ==
    [][AtWorkaround =>
        LET listed ==
                /\ req.library_name = <<"o", "r", "j", "s", "o", "n">>
                /\ \/ HasSubstring(req.target_triplet, <<"a", "a", "r", "c", "h", "6", "4">>)
                   \/ HasSubstring(req.target_triplet, <<"a", "r", "m", "6", "4">>)
            native == pc = "native_patch"
            others == (DOMAIN build_env \cup DOMAIN build_env') \ {RUSTFLAGS}
        IN  IF listed
            THEN /\ pt_calls' = pt_calls + 1
                 /\ IF native
                    THEN build_env'[RUSTFLAGS] = NativeRustFlags(<<>>)
                    ELSE RUSTFLAGS \notin DOMAIN build_env'
                 /\ ORJSON_DISABLE_YYJSON \in DOMAIN build_env'
                 /\ build_env'[ORJSON_DISABLE_YYJSON] =
                        Get(build_env, ORJSON_DISABLE_YYJSON, <<"1">>)
            ELSE /\ UNCHANGED <<avx512_rs, pystr_rs, pt_calls>>
                 /\ \A n \in others :
                        /\ (n \in DOMAIN build_env) = (n \in DOMAIN build_env')
                        /\ n \in DOMAIN build_env => build_env'[n] = build_env[n]
                 /\ IF native
                    THEN build_env'[RUSTFLAGS] =
                             NativeRustFlags(Get(build_env, RUSTFLAGS, <<>>))
                    ELSE /\ (RUSTFLAGS \in DOMAIN build_env)
                                = (RUSTFLAGS \in DOMAIN build_env')
                         /\ RUSTFLAGS \in DOMAIN build_env
                                => build_env'[RUSTFLAGS] = build_env[RUSTFLAGS]]_vars

\* C19 witness: build_wheel_with_cross on orjson for aarch64 under an
\* ambient RUSTFLAGS has patched the sources and dropped the variable; the
\* ORJSON_DISABLE_YYJSON of the invoking process was kept.
C19_Witness ==
    /\ pc = "cross_build"
    /\ req.library_name = Orjson
    /\ req.target_triplet = Aarch64Android
    /\ RUSTFLAGS \in DOMAIN os_environ
    /\ RUSTFLAGS \notin DOMAIN build_env
    /\ build_env[ORJSON_DISABLE_YYJSON] = <<"0">>
    /\ pt_calls = 1

\* C20: the environment handed to the build command has PYO3_CROSS=1 and
\* PYO3_CROSS_PYTHON_VERSION equal to the requested version; in build_wheel
\* PYO3_CROSS_LIB_DIR is the runtime's lib directory exactly when the
\* triplet contains android; in the cross and zig functions it is not set
\* for an Android triplet, whatever the invoking process had set.
C20_Pyo3CrossSettings ==
    pc \in {"native_build", "cross_build", "zig_build"}
        => LET android == HasSubstring(req.target_triplet,
                              <<"a", "n", "d", "r", "o", "i", "d">>)
           IN  /\ PYO3_CROSS \in DOMAIN build_env
               /\ build_env[PYO3_CROSS] = <<"1">>
               /\ build_env[PYO3_CROSS_PYTHON_VERSION] = req.python_version
               /\ pc = "native_build"
                    => (android <=> Get(build_env, PYO3_CROSS_LIB_DIR, <<>>) = LibDirPath)
               /\ (pc # "native_build" /\ android)
                    => PYO3_CROSS_LIB_DIR \notin DOMAIN build_env

\* The variable by which a cross build names the target's sysconfig data
PYTHON_SYSCONFIGDATA_NAME == <<"_PYTHON_SYSCONFIGDATA_NAME">>

\* C21: in the cross strategy the environment handed to the build command
\* declares a sysconfig data name and a library search path taken from the
\* provisioned Python runtime.
C21_CrossDeclaresSysconfig ==
    pc = "cross_build"
        => /\ PYTHON_SYSCONFIGDATA_NAME \in DOMAIN build_env
           /\ Get(build_env, PYO3_CROSS_LIB_DIR, <<>>) = LibDirPath

\* --sysroot=<NDK toolchain>/sysroot for the provisioned NDK
NdkSysrootFlags ==
    <<"--sysroot=">> \o NdkPath
        \o <<"/toolchains", "/llvm", "/prebuilt", "/linux-x86_64", "/sysroot">>

\* C22: when build_wheel_with_zig reaches its build command, maturin[zig]
\* has been installed into the build venv and the environment of the build
\* command carries the NDK's system root flags.
C22_ZigCarriesSysroot ==
    pc = "zig_build"
        => /\ src.venv = "maturin"
           /\ "install" \in effects
           /\ Get(build_env, CFLAGS, <<>>) = NdkSysrootFlags
           /\ Get(build_env, LDFLAGS, <<>>) = NdkSysrootFlags

\* C23: clone_library_source runs no git command and leaves the path as it
\* is when the path exists; otherwise it runs a shallow clone, with --branch
\* exactly when a version is given, then the recursive submodule update in
\* the clone, and the run goes on only if both commands succeeded.
C23_CloneFrame ==
    [][pc = "clone" =>
          IF src.state # "absent"
          THEN io' = <<>> /\ src' = src /\ pc' = "select"
          ELSE /\ Len(io') \in 1..2
               /\ io'[1] = IF req.library_version # <<>>
                           THEN "git clone --depth=1 --branch"
                           ELSE "git clone --depth=1"
               /\ Len(io') = 2 => io'[2] = "git submodule update"
               /\ pc' = "select" => (Len(io') = 2 /\ src'.state = "complete")
               /\ pc' # "select"
                     => (pc' = "failed" /\ error'.type = "CalledProcessError"
                            /\ error'.at = "clone_library_source")]_vars

\* C23 witness: a pinned version was cloned with --branch and its
\* submodules were initialised.
C23_Witness ==
    /\ pc = "select"
    /\ req.library_version = PinnedVersion
    /\ src.state = "complete"
    /\ io = <<"git clone --depth=1 --branch", "git submodule update">>

\* The bin directory of the NDK toolchain
NdkToolchainBin ==
    NdkPath \o <<"/toolchains", "/llvm", "/prebuilt", "/linux-x86_64", "/bin">>

\* The variables prepare_build_environment assigns, for the triplet t
Assigned(t) == {PATH, CC, CXX, AR, CFLAGS, LDFLAGS, CargoTargetAr(t)}

\* C24: prepare_build_environment merges: every variable of the process
\* environment that it does not assign is in the returned mapping with its
\* value, PATH is the process's PATH behind the NDK toolchain bin directory,
\* and the process environment is as before the call.
C24_EnvironmentMerged ==
    [][pc = "prepare" =>
          /\ \A n \in DOMAIN os_environ \ Assigned(req.target_triplet) :
                n \in DOMAIN prepared_env' /\ prepared_env'[n] = os_environ[n]
          /\ DOMAIN prepared_env'
                = DOMAIN os_environ \cup Assigned(req.target_triplet)
          /\ prepared_env'[PATH] = NdkToolchainBin \o <<":">> \o os_environ[PATH]
          /\ os_environ' = os_environ]_vars

\* C24 witness: the process had RUSTFLAGS and its own CC; the returned
\* mapping keeps the first and replaces the second.
C24_Witness ==
    /\ pc = "prepared"
    /\ RUSTFLAGS \in DOMAIN os_environ
    /\ CC \in DOMAIN os_environ
    /\ prepared_env[RUSTFLAGS] = os_environ[RUSTFLAGS]
    /\ prepared_env[CC] # os_environ[CC]

\* The name of the per-target cargo variable, written out for each triplet
ExpectedCargoAr(t) ==
    CASE t = Aarch64Android ->
            <<"CARGO_TARGET_", "A", "A", "R", "C", "H", "6", "4", "_", "L", "I",
              "N", "U", "X", "_", "A", "N", "D", "R", "O", "I", "D", "_AR">>
      [] t = X8664Android ->
            <<"CARGO_TARGET_", "X", "8", "6", "_", "6", "4", "_", "L", "I", "N",
              "U", "X", "_", "A", "N", "D", "R", "O", "I", "D", "_AR">>
      [] t = Aarch64Gnu ->
            <<"CARGO_TARGET_", "A", "A", "R", "C", "H", "6", "4", "_", "U", "N",
              "K", "N", "O", "W", "N", "_", "L", "I", "N", "U", "X", "_", "G",
              "N", "U", "_AR">>

\* The variables of the mapping e named CARGO_TARGET_..._AR
CargoArNames(e) ==
    {n \in DOMAIN e : Len(n) >= 2 /\ n[1] = "CARGO_TARGET_" /\ n[Len(n)] = "_AR"}

\* C25: the mapping prepare_build_environment returns is determined by the
\* NDK path, the triplet, the API level and the process environment: CC is
\* <triplet><api>-clang, CXX <triplet><api>-clang++, AR llvm-ar, CFLAGS and
\* LDFLAGS --sysroot=<toolchain>/sysroot, and exactly one variable is named
\* CARGO_TARGET_<TRIPLET uppercased, - as _>_AR.
C25_PreparedValues ==
    pc = "prepared" =>
        /\ prepared_env = prepare_build_environment(os_environ, NdkPath,
                              req.target_triplet, req.android_api)
        /\ prepared_env[CC] = req.target_triplet \o req.android_api
                                  \o <<"-", "c", "l", "a", "n", "g">>
        /\ prepared_env[CXX] = prepared_env[CC] \o <<"+", "+">>
        /\ prepared_env[AR] = <<"llvm-ar">>
        /\ prepared_env[CFLAGS] = NdkSysrootFlags
        /\ prepared_env[LDFLAGS] = NdkSysrootFlags
        /\ CargoArNames(prepared_env) = {ExpectedCargoAr(req.target_triplet)}
        /\ prepared_env[ExpectedCargoAr(req.target_triplet)] = <<"llvm-ar">>

\* C25 witness: x86_64-linux-android gave CARGO_TARGET_X86_64_LINUX_ANDROID_AR.
C25_Witness ==
    /\ pc = "prepared"
    /\ req.target_triplet = X8664Android
    /\ ExpectedCargoAr(X8664Android) \in DOMAIN prepared_env

\* The positions of the workaround and of the build command
PatchPositions == {"native_patch", "cross_patch", "zig_patch"}
BuildPositions == {"native_build", "cross_build", "zig_build"}

\* C26: patch_orjson_for_android warns exactly when a guard is absent
\* afterwards (a file missing or without a call site included), raises
\* nothing, and the build function goes on to its build command.
C26_FailedVerificationIsWarning ==
    [][(pc \in PatchPositions /\ NeedsOrjsonPatch(req)) =>
          /\ pt_warned' = ~(/\ avx512_rs'.exists
                            /\ Contains(avx512_rs'.text, "FILE_GUARD")
                            /\ pystr_rs'.exists
                            /\ Contains(pystr_rs'.text, "CFG_GUARD"))
          /\ error' = NoError
          /\ pc' \in BuildPositions
          /\ build_calls' = build_calls]_vars

\* C26 witness: pystr.rs had no call site, the warning was printed and the
\* build command of build_wheel ran.
C26_Witness ==
    /\ pt_warned
    /\ avx512_rs.exists
    /\ pystr_rs.exists
    /\ ~Contains(pystr_rs.text, "CFG_GUARD")
    /\ "build_wheel" \in effects
    /\ build_calls = 1
    /\ pc = "process_wheel"

\* What setup_ndk does on a cache miss, in order
NdkInstallation ==
    <<"download ndk", "unpack ndk", "rename ndk", "unlink ndk zip", "chmod ndk bin">>

\* C27: on a cache miss setup_ndk downloads, extracts, renames the
\* extraction root, deletes the archive and makes the files of the bin
\* directory executable, in this order; when it returns the canonical path
\* exists, the archive does not and every regular file of the bin directory
\* is executable; a missing extraction root ends the run with the canonical
\* path absent.
C27_NdkInstalledInOrder ==
    [][(pc = "setup_ndk" /\ ~temp.ndk) =>
          /\ Len(io') \in 1..Len(NdkInstallation)
          /\ io' = SubSeq(NdkInstallation, 1, Len(io'))
          /\ pc' \in {"clone", "failed"}
          /\ pc' = "clone"
                => /\ io' = NdkInstallation
                   /\ temp'.ndk
                   /\ ~temp'.ndk_zip
                   /\ temp'.ndk_bin # {}
                   /\ \A e \in temp'.ndk_bin : e.kind = "file" => e.exec
          /\ pc' = "failed"
                => /\ ~temp'.ndk
                   /\ error'.at = "setup_ndk"
                   /\ error'.type = "FileNotFoundError" => Len(io') = 2]_vars

\* C27 witness: the NDK was installed and the tool that the archive held
\* without execute permission has it.
C27_Witness ==
    /\ pc = "clone"
    /\ io = NdkInstallation
    /\ temp.ndk
    /\ ~temp.ndk_zip
    /\ [name |-> "clang", kind |-> "file", exec |-> TRUE] \in temp.ndk_bin

\* C28: latest-patch resolution terminates on every chain of tag pages: each
\* step requests the one page url names, the next page requested is the one
\* the rel="next" link of that response names, and no page is requested
\* after a response without that link or after an error.
C28_ResolutionTerminates ==
    /\ [][(pc = "while" /\ tg_url # 0) =>
             /\ tg_fetched' = Append(tg_fetched, tg_url)
             /\ tg_pages[tg_url].ok
                   => /\ pc' = "while"
                      /\ tg_url' = IF tg_url < Len(tg_pages) THEN tg_url + 1 ELSE 0
             /\ ~tg_pages[tg_url].ok => pc' = "returned"]_vars
    /\ [][(pc = "returned" \/ tg_url = 0) => tg_fetched' = tg_fetched]_vars
    /\ <>(pc = "returned")

\* C28 witness: two pages were requested, the second had no next link, and
\* the function returned what the one-call form of the loop returns.
C28_Witness ==
    /\ pc = "returned"
    /\ Len(tg_pages) = 2
    /\ tg_fetched = <<1, 2>>
    /\ ~tg_out.failed
    /\ tg_out = get_latest_patch_for_python(tg_version, tg_pages)

\* C29: the wheel process_wheel selects is the same for every order in
\* which the two directory scans may list the same files: the selection of
\* the step taken is the selection under any other listing order, wheels of
\* equal modification time included.
C29_SelectionIgnoresListingOrder ==
    [][WheelStep =>
          \A primary_listing \in Listings(GlobDirect(files, SearchPath(pw_args))) :
          \A recursive_listing \in
                 IF primary_listing # <<>> THEN {<<>>}
                 ELSE Listings(GlobRecursive(files)) :
             process_wheel(pw_args, files, out_dir, primary_listing,
                           recursive_listing).selected = pw_out'.selected]_vars

\* The name has no "-", so it has no version segment
HasNoVersionSegment(name) == \A i \in 1..Len(name) : name[i] # "-"

\* C30: when no library version is pinned and the name of the selected
\* wheel has no version segment, process_wheel fails with ValueError, the
\* wheel stays where it is under its name, and the output directory is
\* neither created nor changed; no other call fails with ValueError.
C30_UnparsableVersionIsFatal ==
    [][WheelStep =>
          /\ (/\ pw_args.library_version = <<>>
              /\ pw_out'.selected # NoEntry
              /\ HasNoVersionSegment(pw_out'.selected.name))
                => /\ pc' = "failed"
                   /\ pw_out'.error = "ValueError"
                   /\ files' = files
                   /\ pw_out'.selected \in files'
                   /\ out_dir' = out_dir
          /\ pw_out'.error = "ValueError"
                => /\ pw_args.library_version = <<>>
                   /\ HasNoVersionSegment(pw_out'.selected.name)]_vars

\* C30 witness: a.whl was selected with no version pinned; the call failed
\* and there is still no output directory.
C30_Witness ==
    /\ pc = "failed"
    /\ pw_out.error = "ValueError"
    /\ pw_args.library_version = <<>>
    /\ pw_out.selected.name = <<"a">> \o DotWhl
    /\ pw_out.selected \in files
    /\ out_dir = NoOutput

\* The build functions a run has called
BuildFunctionsCalled ==
    effects \cap {"build_wheel", "build_wheel_with_cross", "build_wheel_with_zig"}

\* The build function of the strategy that BUILD_METHOD names
NamedBuildFunction ==
    CASE req.build_method = "zig" -> "build_wheel_with_zig"
      [] req.build_method = "cross" -> "build_wheel_with_cross"
      [] OTHER -> "build_wheel"

\* The build function main selects: the named one when its module was
\* imported, build_wheel otherwise
SelectedBuildFunction ==
    IF req.method_imported THEN NamedBuildFunction ELSE "build_wheel"

\* Selection is behind the run
Selected == req # NoRequest /\ req.build_method # "" /\ pc # "select"

\* C31 as stated: a run calls at most one build function, and once the
\* strategy is selected it has called exactly the build function of the
\* strategy that the selector names.
C31_StrategyIsTheOneNamed ==
    /\ Cardinality(BuildFunctionsCalled) <= 1
    /\ Selected => BuildFunctionsCalled = {NamedBuildFunction}

\* C31 amended: a run calls at most one build function, and once the
\* strategy is selected it has called exactly the build function of the
\* named strategy when that strategy's module was imported, and that of the
\* native strategy otherwise.
C31_OneStrategyPerRun ==
    /\ Cardinality(BuildFunctionsCalled) <= 1
    /\ Selected => BuildFunctionsCalled = {SelectedBuildFunction}
    /\ pc \in {"cross_backend", "cross_venv", "cross_rustup", "cross_env",
               "cross_patch", "cross_build"}
          => SelectedBuildFunction = "build_wheel_with_cross"
    /\ pc \in {"native_cargo_config", "native_backend", "native_venv",
               "native_rustup", "native_env", "native_patch", "native_build"}
          => SelectedBuildFunction = "build_wheel"

\* C31 witness: the second run over the same directories was asked for
\* cross and has completed having called build_wheel_with_cross only.
C31_Witness ==
    /\ runs = 2
    /\ pc = "done"
    /\ req.build_method = "cross"
    /\ BuildFunctionsCalled = {"build_wheel_with_cross"}
    /\ build_calls = 1

\* ---------------------------------------------------------------------
\* C32

\* The positions of build_wheel (build_android_wheel.py:271-355)
NativePositions ==
    {"native_cargo_config", "native_backend", "native_venv", "native_rustup",
     "native_env", "native_patch", "native_build"}

\* The changes build_wheel makes to its environment are present in m
HasBuildWheelChanges(m) ==
    /\ Get(m, PYO3_CROSS, <<>>) = <<"1">>
    /\ PYO3_CROSS_PYTHON_VERSION \in DOMAIN m
    /\ PYO3_CROSS_PYTHON_IMPLEMENTATION \in DOMAIN m
    /\ RUSTFLAGS \in DOMAIN m
    /\ HasSubstring(m[RUSTFLAGS], <<"-C link-arg=-Wl,-v">>)

\* C32: build_wheel does not mutate the mapping it is handed. No step of
\* build_wheel changes the caller's mapping; the PyO3 settings, the removal
\* and extension of RUSTFLAGS and ORJSON_DISABLE_YYJSON are all found in
\* the private copy when the build command runs, and the caller's mapping
\* is then still what prepare_build_environment returned.
C32_CallerMappingUntouched ==
    [][(pc \in NativePositions)
        => /\ prepared_env' = prepared_env
           /\ (pc = "native_build"
               => /\ HasBuildWheelChanges(build_env)
                  /\ (NeedsOrjsonPatch(req)
                      => /\ Get(build_env, ORJSON_DISABLE_YYJSON, <<>>) # <<>>
                         /\ build_env[RUSTFLAGS] = NativeRustFlags(<<>>))
                  /\ prepared_env =
                        prepare_build_environment(os_environ, NdkPath,
                            req.target_triplet, req.android_api))]_vars

\* C32 witness: build_wheel has run its build command for orjson on
\* aarch64 with an ambient RUSTFLAGS: the copy has lost that value and
\* gained the PyO3 settings, the caller's mapping has neither change.
C32_Witness ==
    /\ pc = "process_wheel"
    /\ "build_wheel" \in effects
    /\ build_calls = 1
    /\ NeedsOrjsonPatch(req)
    /\ RUSTFLAGS \in DOMAIN os_environ
    /\ prepared_env[RUSTFLAGS] = os_environ[RUSTFLAGS]
    /\ build_env[RUSTFLAGS] # prepared_env[RUSTFLAGS]
    /\ PYO3_CROSS \in DOMAIN build_env
    /\ ~ HasBuildWheelChanges(prepared_env)

(***************************************************************************)
(* The selection of the strategy on its own: main after the acquisition,  *)
(* under every spelling of BUILD_METHOD of BuildMethodSettings.           *)
(***************************************************************************)
BUILD_METHOD == <<"BUILD_METHOD">>

\* A plausible slip: the value is compared as it was written.
Lower_AsWritten(c) == c

\* str.lower() on one character
Lower(c) ==
    LET lower == <<"a", "b", "c", "d", "e", "f", "g", "h", "i", "j", "k", "l",
                   "m", "n", "o", "p", "q", "r", "s", "t", "u", "v", "w", "x",
                   "y", "z">>
        upper == <<"A", "B", "C", "D", "E", "F", "G", "H", "I", "J", "K", "L",
                   "M", "N", "O", "P", "Q", "R", "S", "T", "U", "V", "W", "X",
                   "Y", "Z">>
    IN  IF \E i \in 1..Len(upper) : upper[i] = c
        THEN lower[CHOOSE i \in 1..Len(upper) : upper[i] = c]
        ELSE c

\* os.environ.get("BUILD_METHOD", "native").lower()
BuildMethodOf(environ) ==
    LET raw == Get(environ, BUILD_METHOD, <<"n", "a", "t", "i", "v", "e">>)
    IN  [i \in 1..Len(raw) |-> Lower(raw[i])]

\* build_method as the two comparisons of main tell it apart
MethodLabel(build_method) ==
    CASE build_method = <<"z", "i", "g">> -> "zig"
      [] build_method = <<"c", "r", "o", "s", "s">> -> "cross"
      [] build_method = <<"n", "a", "t", "i", "v", "e">> -> "native"
      [] OTHER -> "other"

\* The values the selection may see under environ: build_method, and the
\* import flag of the module it names (CAN_USE_ZIG, CAN_USE_CROSS).
MethodsOf(environ) ==
    {m \in [build_method : {MethodLabel(BuildMethodOf(environ))},
            method_imported : BOOLEAN] :
        m.build_method \notin {"zig", "cross"} => m.method_imported}

\* BUILD_METHOD as a workflow or a developer may have written it; <<>> is
\* the variable set to the empty string.
BuildMethodSpellings ==
    {<<>>,
     <<"z", "i", "g">>, <<"Z", "I", "G">>, <<"Z", "i", "g">>,
     <<"c", "r", "o", "s", "s">>, <<"C", "R", "O", "S", "S">>,
     <<"C", "r", "o", "s", "s">>,
     <<"n", "a", "t", "i", "v", "e">>, <<"N", "a", "t", "i", "v", "e">>,
     <<"z", "i", "g", "g">>, <<"c", "r", "o", "s">>, <<" ", "z", "i", "g">>,
     <<"n", "a", "t", "i", "v">>}

\* os.environ of a CI job with BUILD_METHOD unset or set
SelectEnvirons ==
    {CleanEnviron}
    \cup {Set(CleanEnviron, BUILD_METHOD, v) : v \in BuildMethodSpellings}

SelectInit ==
    /\ CargoIdle
    /\ TagIdle
    /\ WheelIdle
    /\ pc = "select"
    /\ runs = 1
    /\ req \in Requests
    /\ os_environ \in SelectEnvirons
    /\ \E layout \in SourceLayouts :
          avx512_rs = layout.avx512 /\ pystr_rs = layout.pystr
    /\ pt_calls = 0
    /\ pt_warned = FALSE
    /\ python_lib_dir = [python_version |-> req.python_version,
                         target_triplet |-> req.target_triplet,
                         full_version |-> req.python_version \o <<".", "9">>]
    /\ temp = [ndk |-> TRUE, ndk_zip |-> FALSE,
               ndk_bin |-> ChmodBin(NdkArchiveBin), lib |-> python_lib_dir,
               archives |-> {[full_version |-> python_lib_dir.full_version,
                              target_triplet |-> req.target_triplet]}]
    /\ \E pyproject \in PyprojectKinds :
          src = [state |-> "complete", pyproject |-> pyproject,
                 cargo_config |-> <<>>, venv |-> "absent"]
    /\ io = <<>>
    /\ effects = {}
    /\ error = NoError
    /\ build_calls = 0
    /\ prepared_env = EmptyEnv
    /\ build_env = EmptyEnv
    /\ caught = {}

SelectNext ==
    \/ SelectZig(MethodsOf(os_environ))
    \/ SelectCross(MethodsOf(os_environ))
    \/ SelectNative(MethodsOf(os_environ))

SpecSelect == SelectInit /\ [][SelectNext]_vars

\* ---------------------------------------------------------------------
\* C33

\* The two texts are equal up to the case of their letters
SameIgnoringCase(a, b) ==
    /\ Len(a) = Len(b)
    /\ \A i \in 1..Len(a) : Upper(a[i]) = Upper(b[i])

\* BUILD_METHOD is set in environ to a spelling of the name
Names(environ, name) ==
    /\ BUILD_METHOD \in DOMAIN environ
    /\ SameIgnoringCase(environ[BUILD_METHOD], name)

\* C33: the selection never fails and always ends in a strategy. A
\* BUILD_METHOD that spells zig or cross in any case, with that module
\* imported, selects that strategy; every other value (unset, empty,
\* misspelled) and a zig or cross whose module was not imported selects the
\* native strategy, and the selection itself raises no error on the native
\* and cross paths. Exactly one build function is called.
C33_SelectionTotal ==
    [][(pc = "select")
        => LET zig == /\ Names(os_environ, <<"z", "i", "g">>)
                      /\ req'.method_imported
               cross == /\ Names(os_environ, <<"c", "r", "o", "s", "s">>)
                        /\ req'.method_imported
           IN  /\ Cardinality(BuildFunctionsCalled') = 1
               /\ zig => "build_wheel_with_zig" \in effects'
               /\ cross => /\ "build_wheel_with_cross" \in effects'
                           /\ pc' = "cross_backend"
                           /\ error' = NoError
               /\ (~zig /\ ~cross)
                     => /\ "build_wheel" \in effects'
                        /\ pc' = "native_cargo_config"
                        /\ error' = NoError
                        /\ prepared_env' # EmptyEnv]_vars

\* C33 witness: BUILD_METHOD=CROSS with build_with_cross not importable
\* was read as cross and has started the native build without an error.
C33_Witness ==
    /\ pc = "native_cargo_config"
    /\ Get(os_environ, BUILD_METHOD, <<>>) = <<"C", "R", "O", "S", "S">>
    /\ req.build_method = "cross"
    /\ ~ req.method_imported
    /\ BuildFunctionsCalled = {"build_wheel"}
    /\ error = NoError

\* ---------------------------------------------------------------------
\* C34

\* C34: whenever clone_library_source has returned normally, the tree at
\* the path is a complete clone with its submodules initialised, also when
\* an earlier run over the same directory aborted part-way; no build
\* command runs on a tree whose submodules were not initialised.
C34_ReturnedTreeIsComplete ==
    /\ (pc = "select") => src.state = "complete"
    /\ (build_calls > 0) => src.state = "complete"

\* ---------------------------------------------------------------------
\* C35

\* C35: a run that aborts on the build-backend precondition (no
\* pyproject.toml, or a backend other than maturin) has created or changed
\* nothing in the source tree, in any strategy: no .cargo/config.toml and
\* no .build_venv exist when the error is raised.
C35_RejectedBackendLeavesTreeAlone ==
    (pc = "failed" /\ error.type = "ValueError" /\ error.at = "backend")
        => /\ src.cargo_config = <<>>
           /\ src.venv = "absent"

\* ---------------------------------------------------------------------
\* C36

\* C36: in the native strategy the .cargo/config.toml that build_wheel
\* writes has a linker entry for the target triplet and for no other, and
\* that linker is the CC of the derived build environment, the triplet
\* followed by the API level and -clang; a file left by an earlier build is
\* rewritten, to the same content when the triplet and API level are the
\* same.
C36_LinkerIsCC ==
    [][(pc = "native_cargo_config")
        => /\ DOMAIN src'.cargo_config = {req.target_triplet}
           /\ src'.cargo_config[req.target_triplet] = prepared_env[CC]
           /\ prepared_env[CC] =
                 req.target_triplet \o req.android_api
                     \o <<"-", "c", "l", "a", "n", "g">>
           /\ (req.target_triplet \in DOMAIN src.cargo_config
               => src'.cargo_config = src.cargo_config)]_vars

\* C36 witness: the second run over a tree whose config file an earlier
\* native build wrote has rewritten it for the same triplet.
C36_Witness ==
    /\ runs = 2
    /\ pc = "native_backend"
    /\ "cargo_config" \in effects
    /\ DOMAIN src.cargo_config = {req.target_triplet}
    /\ src.cargo_config[req.target_triplet] = prepared_env[CC]
    /\ src.venv # "absent"

\* ---------------------------------------------------------------------
\* C37

\* The tags of the chain with the prefix "v<version>." whose last
\* '.'-separated component is not an integer
SkippedTags(version, pages) ==
    {t \in ChainTags(pages) :
        /\ StartsWith(t, <<"v">> \o version \o <<".">>)
        /\ ~ \E n \in 0..20 : EndsWith(t, <<".">> \o IntText(n))}

\* C37: a tag "vX.Y.<not an integer>", such as a pre-release tag, is
\* skipped: with every page fetched, the resolution requests all pages,
\* does not take the failure path, and returns the greatest integer patch
\* of the remaining tags; when no tag yields an integer patch the result is
\* "X.Y.0".
C37_PreReleaseTagSkipped ==
    (/\ TagReturned
     /\ \A i \in 1..Len(tg_pages) : tg_pages[i].ok
     /\ SkippedTags(tg_version, tg_pages) # {})
        => /\ ~tg_out.failed
           /\ tg_out.fetched = [i \in 1..Len(tg_pages) |-> i]
           /\ tg_out.version =
                 IF ChainPatches(tg_version, tg_pages) = {}
                 THEN tg_version \o <<".", "0">>
                 ELSE tg_version \o <<".">>
                         \o IntText(SetMax(ChainPatches(tg_version, tg_pages)))

\* C37 witness: page one lists the pre-release tag v3.14.0rc1 alone, page
\* two a tag of another version line; both pages were requested and the
\* answer is 3.14.0 without the failure path.
C37_Witness ==
    /\ TagReturned
    /\ tg_version = V314
    /\ Len(tg_pages) = 2
    /\ tg_pages[1].ok /\ tg_pages[2].ok
    /\ tg_pages[1].tags = << <<"v", "3", ".", "1", "4", ".", "0", "r", "c", "1">> >>
    /\ tg_pages[2].tags = << <<"v", "3", ".", "1", "5", ".", "7">> >>
    /\ tg_out.fetched = <<1, 2>>
    /\ ~tg_out.failed
    /\ tg_out.version = <<"3", ".", "1", "4", ".", "0">>

====
